---- MODULE Spec2Model ----
(***************************************************************************)
(* A model of the playlist index (models/playlist.py), the EPG store       *)
(* (models/epg.py), the channel-to-EPG mapper                              *)
(* (controllers/epg_controller.py), the M3U and XMLTV parsers (utils/),    *)
(* the ingestion triggers (controllers/playlist_controller.py,             *)
(* controllers/player_controller.py) and the reconnect logic of the        *)
(* player widget (views/player_widget.py) of the IPTV player.              *)
(*                                                                         *)
(* Python strings that are compared, lowercased or sorted are sequences    *)
(* of character codes; strings that are only tested for equality (URLs,    *)
(* titles, operation names) are TLA+ strings.  Optional[T] is a sequence:  *)
(* None is <<>> and a present value x is <<x>>.                            *)
(***************************************************************************)
EXTENDS Integers, Sequences, FiniteSets, TLC

VARIABLES
    channels,           \* Playlist.channels
    _categories,        \* Playlist._categories      : category -> list of Channel
    _categories_set,    \* Playlist._categories_set
    _url_index,         \* Playlist._url_index       : url -> Channel
    _name_index,        \* Playlist._name_index      : name -> list of Channel
    added,              \* history: arguments of add_channel since construction / clear()
    resorted,           \* history: sort_channels ran since construction / clear()
    _channels,          \* EPG._channels             : channel_id -> EPGData.programs
    _programs_count,    \* EPG._programs_count
    added_programs,     \* history: channel_id -> the programs added, in the order added
    epg,                \* EPGController.epg         : None or the installed store
    epg_path,           \* EPGController.epg_path
    channel_map,        \* EPGController.channel_map : Channel.id -> EPG id
    playlist,           \* PlaylistController.playlist
    _last_loaded_path,  \* PlaylistController._last_loaded_path (None until it is set)
    other,              \* a second Playlist, the argument of merge
    merging,            \* the `for` loop of a merge that is running (None: no merge runs)
    requests,           \* log: the timeout of each requests.get call made so far
    notifications,      \* log: the type of each notification the window has shown
    vlc_available,      \* PlayerWidget.vlc_available
    current_url,        \* PlayerWidget.current_url
    reconnect_attempts, \* PlayerWidget.reconnect_attempts
    reconnect_timer,    \* PlayerWidget.reconnect_timer : the state of that Timer object
    player,             \* PlayerWidget.player          : the state of the VLC player
    timer_threads,      \* timer threads that are past Timer's cancel test, _reconnect not yet run
    status,             \* the text of PlayerWidget.status_overlay (None: nothing shown yet)
    auto_reconnects,    \* history: playback restarts by _reconnect since the user's play() or the playing state
    halted,             \* history: stop() or cleanup_vlc() returned and the user has not called play() since
    call,               \* the operation that ran last and its arguments
    ret                 \* how it ended: the value returned or the exception raised

plVars  == <<channels, _categories, _categories_set, _url_index, _name_index>>
plHist  == <<added, resorted>>
epgVars == <<_channels, _programs_count, added_programs>>
ctlVars == <<epg, epg_path, channel_map>>
appVars == <<playlist, _last_loaded_path>>
netVars == <<requests, notifications>>
widgetVars == <<vlc_available, current_url, reconnect_attempts, reconnect_timer, player,
                timer_threads, status, auto_reconnects, halted>>
uiVars  == <<netVars, widgetVars>>
vars    == <<plVars, plHist, epgVars, ctlVars, appVars, other, merging, uiVars, call, ret>>

(***************************************************************************)
(* Bounds                                                                  *)
(***************************************************************************)
MaxChannels == 3        \* longest playlist
MaxMerge    == 2        \* longest playlist merged into another
MaxPrograms == 2        \* most programs held by one EPG store
MaxTime     == 2        \* times are 0..MaxTime
MaxLimit    == 2        \* get_upcoming_programs limits are 0..MaxLimit
MaxList     == 1        \* longest program list given to EPG.add_channel
MaxDoc      == 2        \* most <programme> elements in an XMLTV document
MaxAutoMap  == 2        \* most channels given to auto_map_channels
MaxLookup   == 2        \* most channels and programs together in SpecLookup
MaxLines    == 3        \* most lines of a playlist file after its first line
MaxElements == 3        \* most <programme> elements in a document given to EPGParser.parse
MaxNotifications == 2   \* most notifications shown while the controllers reload
MaxTimerThreads == 2    \* most timer threads that are about to call _reconnect

(***************************************************************************)
(* Python values                                                           *)
(***************************************************************************)
None == <<>>
Some(x) == <<x>>

\* how a call ended: it returned a value, or an exception left it
Return(v) == [raised |-> "", value |-> v]
Raise(e) == [raised |-> e, value |-> None]

\* "" , "Uncategorized", "All" and the few names used as data
EmptyStr == <<>>
Uncategorized == <<85, 110, 99, 97, 116, 101, 103, 111, 114, 105, 122, 101, 100>>
AllCategory == <<65, 108, 108>>
Str_a == <<97>>
Str_b == <<98>>
Str_B == <<66>>
Str_N == <<78>>
Str_n == <<110>>

\* str.lower() on one ASCII character
LowerChar(c) == IF c >= 65 /\ c <= 90 THEN c + 32 ELSE c

\* str.lower()
lower(s) == [i \in 1..Len(s) |-> LowerChar(s[i])]

\* Python's < on str: lexicographic by code point, a proper prefix is smaller
RECURSIVE StrLess(_, _)
StrLess(s, t) ==
    IF t = <<>> THEN FALSE
    ELSE IF s = <<>> THEN TRUE
    ELSE IF Head(s) # Head(t) THEN Head(s) < Head(t)
    ELSE StrLess(Tail(s), Tail(t))

\* `query in text` on str: substring test
IsSubstring(q, s) ==
    \E i \in 0..(Len(s) - Len(q)) : \A j \in 1..Len(q) : s[i + j] = q[j]

\* the elements of a sequence
Range(s) == {s[i] : i \in 1..Len(s)}

\* the subsequence of s whose elements satisfy Test, in order
RECURSIVE SelectSeqBy(_, _)
SelectSeqBy(s, keep) ==
    IF s = <<>> THEN <<>>
    ELSE IF Head(s) \in keep THEN <<Head(s)>> \o SelectSeqBy(Tail(s), keep)
    ELSE SelectSeqBy(Tail(s), keep)

(***************************************************************************)
(* Channel (models/playlist.py)                                            *)
(***************************************************************************)
Channel(name, url, group, epg_id, channel_number, id) ==
    [name |-> name, url |-> url, group |-> group, logo |-> "", epg_id |-> epg_id,
     channel_number |-> channel_number, time_shift |-> 0, id |-> id]

\* Channel.__eq__: equality is by URL alone
ChannelEq(c, d) == c.url = d.url

\* The channels the playlist operations are exercised with: two share a URL
\* and differ in name and group, two share a name, one has an empty group,
\* names differ in case only, numbered and unnumbered channels.
PlaylistChannels ==
    { Channel(Str_b, "u1", EmptyStr, EmptyStr, 0, None),
      Channel(Str_B, "u1", Str_N,    EmptyStr, 2, None),
      Channel(Str_a, "u2", Str_N,    EmptyStr, 1, None),
      Channel(Str_b, "u3", Str_n,    EmptyStr, 1, None),
      Channel(Str_a, "u4", Uncategorized, EmptyStr, 0, None) }

Urls == {c.url : c \in PlaylistChannels} \cup {"u9"}
Categories == {c.group : c \in PlaylistChannels} \cup {Uncategorized, AllCategory}
SortKeys == {"name", "group", "channel_number"}

\* sequences over S of length at most n
RECURSIVE SeqsUpTo(_, _)
SeqsUpTo(S, n) ==
    IF n = 0 THEN {<<>>}
    ELSE LET shorter == SeqsUpTo(S, n - 1)
         IN  shorter \cup {Append(s, x) : s \in shorter, x \in S}

(***************************************************************************)
(* Playlist (models/playlist.py)                                           *)
(***************************************************************************)
\* `channel.group or "Uncategorized"`
CategoryOf(channel) == IF channel.group = EmptyStr THEN Uncategorized ELSE channel.group

\* d[k].append(x) after `if k not in d: d[k] = []`
AppendTo(d, k, x) ==
    IF k \in DOMAIN d THEN [d EXCEPT ![k] = Append(@, x)] ELSE d @@ (k :> <<x>>)

\* d[k] = x
Put(d, k, x) == IF k \in DOMAIN d THEN [d EXCEPT ![k] = x] ELSE d @@ (k :> x)

\* the index state of a playlist: what add_channel and _rebuild_indexes work on
Indexes(cats, catset, urls, names) ==
    [categories |-> cats, categories_set |-> catset, url_index |-> urls, name_index |-> names]

EmptyIndexes == Indexes(<<>>, {}, <<>>, <<>>)

\* IndexChannel with the URL index keeping the first channel of a URL
\* (setdefault in place of assignment)
IndexChannel_first_url_wins(ix, channel) ==
    Indexes(AppendTo(ix.categories, CategoryOf(channel), channel),
            ix.categories_set \cup {CategoryOf(channel)},
            IF channel.url \in DOMAIN ix.url_index THEN ix.url_index
            ELSE Put(ix.url_index, channel.url, channel),
            AppendTo(ix.name_index, channel.name, channel))

\* the three index updates of add_channel (the same statements as the loop
\* body of _rebuild_indexes)
IndexChannel(ix, channel) ==
    Indexes(AppendTo(ix.categories, CategoryOf(channel), channel),
            ix.categories_set \cup {CategoryOf(channel)},
            Put(ix.url_index, channel.url, channel),
            AppendTo(ix.name_index, channel.name, channel))

\* `for channel in chs:` running the index updates from the state ix
RECURSIVE IndexAll(_, _)
IndexAll(ix, chs) ==
    IF chs = <<>> THEN ix ELSE IndexAll(IndexChannel(ix, Head(chs)), Tail(chs))

\* Playlist._rebuild_indexes: clear the four indices, then index every channel
_rebuild_indexes(chs) == IndexAll(EmptyIndexes, chs)

CurrentIndexes == Indexes(_categories, _categories_set, _url_index, _name_index)

SetIndexes(ix) ==
    /\ _categories' = ix.categories
    /\ _categories_set' = ix.categories_set
    /\ _url_index' = ix.url_index
    /\ _name_index' = ix.name_index

\* Playlist.__init__
PlaylistInit ==
    /\ channels = <<>>
    /\ _categories = <<>>
    /\ _categories_set = {}
    /\ _url_index = <<>>
    /\ _name_index = <<>>
    /\ added = <<>>
    /\ resorted = FALSE

\* Playlist.add_channel
add_channel(channel) ==
    /\ Len(channels) < MaxChannels
    /\ channels' = Append(channels, channel)
    /\ SetIndexes(IndexChannel(CurrentIndexes, channel))
    /\ added' = Append(added, channel)
    /\ call' = [op |-> "add_channel", channel |-> channel]
    /\ ret' = Return(None)
    /\ UNCHANGED <<resorted, epgVars, ctlVars, appVars, other, uiVars, merging>>

\* Playlist.merge with a playlist other than self: add_channel for each of
\* the other playlist's channels, in its order
merge(other_channels) ==
    /\ other_channels # <<>>
    /\ Len(channels) + Len(other_channels) <= MaxChannels
    /\ channels' = channels \o other_channels
    /\ SetIndexes(IndexAll(CurrentIndexes, other_channels))
    /\ added' = added \o other_channels
    /\ call' = [op |-> "merge", other |-> other_channels]
    /\ ret' = Return(None)
    /\ UNCHANGED <<resorted, epgVars, ctlVars, appVars, other, uiVars, merging>>

\* the second playlist: Playlist.__init__; no merge runs
OtherInit ==
    /\ other = [channels |-> <<>>, ix |-> EmptyIndexes]
    /\ merging = None

\* Playlist.add_channel on the second playlist
other_add_channel(channel) ==
    /\ Len(other.channels) < MaxMerge
    /\ other' = [channels |-> Append(other.channels, channel),
                 ix |-> IndexChannel(other.ix, channel)]
    /\ call' = [op |-> "other.add_channel", channel |-> channel]
    /\ ret' = Return(None)
    /\ UNCHANGED <<plVars, plHist, epgVars, ctlVars, appVars, uiVars, merging>>

\* merge that takes the channels out of the other playlist as it adds them
\* (other_playlist.channels.pop(0) in place of the iteration)
merge_playlist_drains_other ==
    /\ other.channels # <<>>
    /\ Len(channels) + Len(other.channels) <= MaxChannels
    /\ channels' = channels \o other.channels
    /\ SetIndexes(IndexAll(CurrentIndexes, other.channels))
    /\ added' = added \o other.channels
    /\ other' = [other EXCEPT !.channels = <<>>]
    /\ call' = [op |-> "merge", other |-> other.channels]
    /\ ret' = Return(None)
    /\ UNCHANGED <<resorted, epgVars, ctlVars, appVars, uiVars, merging>>

\* Playlist.merge(other_playlist) with the second playlist for
\* other_playlist
merge_playlist == merge(other.channels)

\* Playlist.merge statement by statement.  `for channel in
\* other_playlist.channels` makes an iterator over that list object;
\* self_merge says that the argument is the playlist itself (p.merge(p)),
\* else it is the second playlist
merge_for(self_merge) ==
    /\ merging = None
    /\ merging' = Some([self_merge |-> self_merge, visited |-> 0])
    /\ call' = [op |-> "merge.for", self_merge |-> self_merge]
    /\ UNCHANGED <<plVars, plHist, epgVars, ctlVars, appVars, other, uiVars, ret>>

\* the list the iterator of the running merge reads, as it is now
Iterated == IF merging[1].self_merge THEN channels ELSE other.channels

\* the loop body: the iterator yields the next element of the list and
\* self.add_channel(channel) appends it
merge_add_channel ==
    /\ merging # None
    /\ merging[1].visited < Len(Iterated)
    /\ Len(channels) < MaxChannels
    /\ LET channel == Iterated[merging[1].visited + 1]
       IN  /\ channels' = Append(channels, channel)
           /\ SetIndexes(IndexChannel(CurrentIndexes, channel))
           /\ added' = Append(added, channel)
           /\ call' = [op |-> "merge.add_channel", channel |-> channel]
    /\ merging' = Some([merging[1] EXCEPT !.visited = @ + 1])
    /\ UNCHANGED <<resorted, epgVars, ctlVars, appVars, other, uiVars, ret>>

\* the iterator is at the end of the list: the loop ends and merge returns
merge_return ==
    /\ merging # None
    /\ merging[1].visited >= Len(Iterated)
    /\ merging' = None
    /\ call' = [op |-> "merge.return"]
    /\ ret' = Return(None)
    /\ UNCHANGED <<plVars, plHist, epgVars, ctlVars, appVars, other, uiVars>>

\* clear that forgets the name index
clear_keeps_name_index ==
    /\ channels' = <<>>
    /\ _categories' = <<>>
    /\ _categories_set' = {}
    /\ _url_index' = <<>>
    /\ added' = <<>>
    /\ resorted' = FALSE
    /\ call' = [op |-> "clear"]
    /\ ret' = Return(None)
    /\ UNCHANGED <<_name_index, epgVars, ctlVars, appVars, other, uiVars, merging>>

\* Playlist.clear
clear ==
    /\ channels' = <<>>
    /\ SetIndexes(EmptyIndexes)
    /\ added' = <<>>
    /\ resorted' = FALSE
    /\ call' = [op |-> "clear"]
    /\ ret' = Return(None)
    /\ UNCHANGED <<epgVars, ctlVars, appVars, other, uiVars, merging>>

\* the sort key of sort_channels: the tuple
\* (channel_number == 0, channel_number, name.lower()) when sorting by
\* channel number and some channel is numbered, else the attribute itself
\* (lowercased when it is a string); KeyBefore(.., x, y) is key(x) < key(y)
KeyBefore(key, numbered, x, y) ==
    IF key = "channel_number" /\ numbered THEN
        LET fx == IF x.channel_number = 0 THEN 1 ELSE 0
            fy == IF y.channel_number = 0 THEN 1 ELSE 0
        IN  \/ fx < fy
            \/ /\ fx = fy
               /\ \/ x.channel_number < y.channel_number
                  \/ /\ x.channel_number = y.channel_number
                     /\ StrLess(lower(x.name), lower(y.name))
    ELSE IF key = "channel_number" THEN x.channel_number < y.channel_number
    ELSE IF key = "group" THEN StrLess(lower(x.group), lower(y.group))
    ELSE StrLess(lower(x.name), lower(y.name))

\* x comes strictly before y in the order list.sort(key=..., reverse=...) produces
SortsBefore(key, numbered, reverse, x, y) ==
    IF reverse THEN KeyBefore(key, numbered, y, x) ELSE KeyBefore(key, numbered, x, y)

\* list.sort is stable, also with reverse=True: x is placed in front of the
\* first element it sorts strictly before, so behind every equal element
RECURSIVE InsertStable(_, _, _, _, _)
InsertStable(sorted, x, key, numbered, reverse) ==
    IF sorted = <<>> THEN <<x>>
    ELSE IF SortsBefore(key, numbered, reverse, x, Head(sorted)) THEN <<x>> \o sorted
    ELSE <<Head(sorted)>> \o InsertStable(Tail(sorted), x, key, numbered, reverse)

RECURSIVE SortFrom(_, _, _, _, _)
SortFrom(sorted, rest, key, numbered, reverse) ==
    IF rest = <<>> THEN sorted
    ELSE SortFrom(InsertStable(sorted, Head(rest), key, numbered, reverse),
                  Tail(rest), key, numbered, reverse)

\* reverse=True done as an ascending sort followed by list.reverse(), which
\* turns the order of channels with equal keys around
SortedChannels_reversed_afterwards(chs, key, reverse) ==
    LET ascending == SortFrom(<<>>, chs, key,
                              \E i \in 1..Len(chs) : chs[i].channel_number > 0, FALSE)
    IN  IF reverse THEN [i \in 1..Len(ascending) |-> ascending[Len(ascending) + 1 - i]]
        ELSE ascending

\* the order of self.channels after self.channels.sort(...) in sort_channels
SortedChannels(chs, key, reverse) ==
    SortFrom(<<>>, chs, key, \E i \in 1..Len(chs) : chs[i].channel_number > 0, reverse)

\* Playlist.sort_channels: sort self.channels in place, then _rebuild_indexes
sort_channels(key, reverse) ==
    /\ channels' = SortedChannels(channels, key, reverse)
    /\ SetIndexes(_rebuild_indexes(SortedChannels(channels, key, reverse)))
    /\ resorted' = TRUE
    /\ call' = [op |-> "sort_channels", key |-> key, reverse |-> reverse]
    /\ ret' = Return(None)
    /\ UNCHANGED <<added, epgVars, ctlVars, appVars, other, uiVars, merging>>

\* dict.get(k) with default None
DictGet(d, k) == IF k \in DOMAIN d THEN Some(d[k]) ELSE None

\* dict.get(k, [])
DictGetList(d, k) == IF k \in DOMAIN d THEN d[k] ELSE <<>>

\* sorted(set of str)
RECURSIVE SortedStrings(_)
SortedStrings(S) ==
    IF S = {} THEN <<>>
    ELSE LET m == CHOOSE x \in S : \A y \in S \ {x} : StrLess(x, y)
         IN  <<m>> \o SortedStrings(S \ {m})

\* Playlist.get_channel_by_url
get_channel_by_url(url) ==
    /\ call' = [op |-> "get_channel_by_url", url |-> url]
    /\ ret' = Return(DictGet(_url_index, url))
    /\ UNCHANGED <<plVars, plHist, epgVars, ctlVars, appVars, other, uiVars, merging>>

\* Playlist.get_channels_by_name
get_channels_by_name(name) ==
    /\ call' = [op |-> "get_channels_by_name", name |-> name]
    /\ ret' = Return(DictGetList(_name_index, name))
    /\ UNCHANGED <<plVars, plHist, epgVars, ctlVars, appVars, other, uiVars, merging>>

\* Playlist.categories
categories ==
    /\ call' = [op |-> "categories"]
    /\ ret' = Return(SortedStrings(_categories_set))
    /\ UNCHANGED <<plVars, plHist, epgVars, ctlVars, appVars, other, uiVars, merging>>

\* get_channels_by_category filing an empty bucket under a category it
\* does not know (setdefault in place of get)
get_channels_by_category_setdefault(category) ==
    /\ call' = [op |-> "get_channels_by_category", category |-> category]
    /\ ret' = Return(DictGetList(_categories, category))
    /\ _categories' = IF category \in DOMAIN _categories THEN _categories
                      ELSE _categories @@ (category :> <<>>)
    /\ UNCHANGED <<channels, _categories_set, _url_index, _name_index, plHist, epgVars,
                   ctlVars, appVars, other, uiVars, merging>>

\* Playlist.get_channels_by_category
get_channels_by_category(category) ==
    /\ call' = [op |-> "get_channels_by_category", category |-> category]
    /\ ret' = Return(DictGetList(_categories, category))
    /\ UNCHANGED <<plVars, plHist, epgVars, ctlVars, appVars, other, uiVars, merging>>

\* Playlist.search_channels
search_channels(query) ==
    /\ call' = [op |-> "search_channels", query |-> query]
    /\ ret' = Return(SelectSeqBy(channels,
                  {c \in Range(channels) : IsSubstring(lower(query), lower(c.name))}))
    /\ UNCHANGED <<plVars, plHist, epgVars, ctlVars, appVars, other, uiVars, merging>>

(***************************************************************************)
(* Program, EPGData and EPG (models/epg.py)                                *)
(***************************************************************************)
Program(title, start_time, end_time) ==
    [title |-> title, start_time |-> start_time, end_time |-> end_time,
     description |-> "", category |-> ""]

Times == 0..MaxTime
Titles == {"News"}
Durations == {1, 2}

\* the programs the store is exercised with: every start time, lasting 1 or
\* 2, and one with end = start, as a faulty feed delivers it
Programs ==
    {Program(title, s, s + d) : title \in Titles, s \in Times, d \in Durations}
        \cup {Program(title, 1, 1) : title \in Titles}

\* EPG channel identifiers: "bbc" and "b c"; a store holds a schedule for
\* both, for one or for none of them
Id_bbc == <<98, 98, 99>>
Id_b_c == <<98, 32, 99>>
EpgIds == {Id_bbc, Id_b_c}

\* get_current_program testing the closed interval start <= t <= end
RECURSIVE EPGData_get_current_program_closed(_, _)
EPGData_get_current_program_closed(programs, current_time) ==
    IF programs = <<>> THEN None
    ELSE IF Head(programs).start_time <= current_time
            /\ current_time <= Head(programs).end_time
         THEN Some(Head(programs))
         ELSE EPGData_get_current_program_closed(Tail(programs), current_time)

\* EPGData.get_current_program: the loop returns at the first program with
\* start_time <= current_time < end_time
RECURSIVE EPGData_get_current_program(_, _)
EPGData_get_current_program(programs, current_time) ==
    IF programs = <<>> THEN None
    ELSE IF Head(programs).start_time <= current_time
            /\ current_time < Head(programs).end_time
         THEN Some(Head(programs))
         ELSE EPGData_get_current_program(Tail(programs), current_time)

\* a sort that puts a program in front of those with the same start
RECURSIVE InsertByStart_before_equal(_, _)
InsertByStart_before_equal(sorted, p) ==
    IF sorted = <<>> THEN <<p>>
    ELSE IF p.start_time <= Head(sorted).start_time THEN <<p>> \o sorted
    ELSE <<Head(sorted)>> \o InsertByStart_before_equal(Tail(sorted), p)

\* upcoming.sort(key=lambda p: p.start_time): stable, ascending
RECURSIVE InsertByStart(_, _)
InsertByStart(sorted, p) ==
    IF sorted = <<>> THEN <<p>>
    ELSE IF p.start_time < Head(sorted).start_time THEN <<p>> \o sorted
    ELSE <<Head(sorted)>> \o InsertByStart(Tail(sorted), p)

RECURSIVE SortByStart(_, _)
SortByStart(sorted, rest) ==
    IF rest = <<>> THEN sorted
    ELSE SortByStart(InsertByStart(sorted, Head(rest)), Tail(rest))

\* s[:n] for n >= 0
Prefix(s, n) == SubSeq(s, 1, IF n < Len(s) THEN n ELSE Len(s))

\* get_upcoming_programs keeping the programs with start_time >= current_time
EPGData_get_upcoming_programs_from_now(programs, current_time, limit) ==
    Prefix(SortByStart(<<>>, SelectSeq(programs, LAMBDA p : p.start_time >= current_time)),
           limit)

\* EPGData.get_upcoming_programs: a new list of the programs with
\* start_time > current_time, sorted by start_time, cut to limit
EPGData_get_upcoming_programs(programs, current_time, limit) ==
    Prefix(SortByStart(<<>>, SelectSeq(programs, LAMBDA p : p.start_time > current_time)),
           limit)

\* A dict whose key order is read (EPG._channels: EPG.channels lists the
\* keys in insertion order): the keys in insertion order and the values
EmptyDict == [keys |-> <<>>, at |-> <<>>]
Has(d, k) == k \in DOMAIN d.at
\* d[k] = v
Store(d, k, v) ==
    IF Has(d, k) THEN [keys |-> d.keys, at |-> [d.at EXCEPT ![k] = v]]
    ELSE [keys |-> Append(d.keys, k), at |-> d.at @@ (k :> v)]

\* EPG.__init__
EPGInit ==
    /\ _channels = EmptyDict
    /\ _programs_count = 0
    /\ added_programs = <<>>

\* EPG.add_channel on the dictionary of schedules and the counter;
\* `if programs:` is false for None and for an empty list
AddChannel(store, channel_id, programs) ==
    LET chans == IF Has(store.channels, channel_id) THEN store.channels
                 ELSE Store(store.channels, channel_id, <<>>)
    IN  IF programs # None /\ programs # Some(<<>>)
        THEN [channels |-> Store(chans, channel_id, chans.at[channel_id] \o programs[1]),
              programs_count |-> store.programs_count + Len(programs[1])]
        ELSE [channels |-> chans, programs_count |-> store.programs_count]

\* EPG.add_program on the dictionary of schedules and the counter
AddProgram(store, channel_id, program) ==
    LET made == IF Has(store.channels, channel_id) THEN store
                ELSE AddChannel(store, channel_id, None)
    IN  [channels |-> Store(made.channels, channel_id,
                            Append(made.channels.at[channel_id], program)),
         programs_count |-> made.programs_count + 1]

EmptyStore == [channels |-> EmptyDict, programs_count |-> 0]
CurrentStore == [channels |-> _channels, programs_count |-> _programs_count]

SetStore(store) ==
    /\ _channels' = store.channels
    /\ _programs_count' = store.programs_count

\* EPG.channels: list(self._channels.keys())
EPG_channels(store) == store.channels.keys

\* EPG.add_channel
EPG_add_channel(channel_id, programs) ==
    /\ programs # None => _programs_count + Len(programs[1]) <= MaxPrograms
    /\ SetStore(AddChannel(CurrentStore, channel_id, programs))
    /\ added_programs' = Put(added_programs, channel_id,
                             DictGetList(added_programs, channel_id)
                                 \o (IF programs = None THEN <<>> ELSE programs[1]))
    /\ call' = [op |-> "EPG.add_channel", channel_id |-> channel_id, programs |-> programs]
    /\ ret' = Return(None)
    /\ UNCHANGED <<plVars, plHist, ctlVars, appVars, other, uiVars, merging>>

\* EPG.add_program
EPG_add_program(channel_id, program) ==
    /\ _programs_count < MaxPrograms
    /\ SetStore(AddProgram(CurrentStore, channel_id, program))
    /\ added_programs' = AppendTo(added_programs, channel_id, program)
    /\ call' = [op |-> "EPG.add_program", channel_id |-> channel_id, program |-> program]
    /\ ret' = Return(None)
    /\ UNCHANGED <<plVars, plHist, ctlVars, appVars, other, uiVars, merging>>

\* EPG.get_channel_data
GetChannelData(store, channel_id) == DictGet(store.channels.at, channel_id)

\* EPG.get_current_program on a store; an EPGData object is always truthy,
\* so `if not channel_data` is the test for None
GetCurrentProgram(store, channel_id, reference_time) ==
    LET channel_data == GetChannelData(store, channel_id)
    IN  IF channel_data = None THEN None
        ELSE EPGData_get_current_program(channel_data[1], reference_time)

\* EPG.get_upcoming_programs on a store
GetUpcomingPrograms(store, channel_id, reference_time, limit) ==
    LET channel_data == GetChannelData(store, channel_id)
    IN  IF channel_data = None THEN <<>>
        ELSE EPGData_get_upcoming_programs(channel_data[1], reference_time, limit)

\* EPG.get_channel_data
EPG_get_channel_data(channel_id) ==
    /\ call' = [op |-> "EPG.get_channel_data", channel_id |-> channel_id]
    /\ ret' = Return(GetChannelData(CurrentStore, channel_id))
    /\ UNCHANGED <<plVars, plHist, epgVars, ctlVars, appVars, other, uiVars, merging>>

\* get_current_program taking the programs that have ended out of the
\* stored schedule as it scans
EPG_get_current_program_drops_ended(channel_id, reference_time) ==
    LET kept == SelectSeq(DictGetList(_channels.at, channel_id),
                          LAMBDA p : p.end_time > reference_time)
    IN  /\ call' = [op |-> "EPG.get_current_program", channel_id |-> channel_id,
                    reference_time |-> reference_time]
        /\ ret' = Return(GetCurrentProgram(CurrentStore, channel_id, reference_time))
        /\ _channels' = IF Has(_channels, channel_id)
                        THEN Store(_channels, channel_id, kept)
                        ELSE _channels
        /\ _programs_count' =
               _programs_count - (Len(DictGetList(_channels.at, channel_id)) - Len(kept))
        /\ UNCHANGED <<plVars, plHist, added_programs, ctlVars, appVars, other, uiVars,
                       merging>>

\* EPG.get_current_program
EPG_get_current_program(channel_id, reference_time) ==
    /\ call' = [op |-> "EPG.get_current_program", channel_id |-> channel_id,
                reference_time |-> reference_time]
    /\ ret' = Return(GetCurrentProgram(CurrentStore, channel_id, reference_time))
    /\ UNCHANGED <<plVars, plHist, epgVars, ctlVars, appVars, other, uiVars, merging>>

\* get_upcoming_programs sorting the stored list itself (self.programs.sort)
\* before it filters
EPG_get_upcoming_programs_sorts_in_place(channel_id, reference_time, limit) ==
    /\ call' = [op |-> "EPG.get_upcoming_programs", channel_id |-> channel_id,
                reference_time |-> reference_time, limit |-> limit]
    /\ ret' = Return(GetUpcomingPrograms(CurrentStore, channel_id, reference_time, limit))
    /\ _channels' = IF Has(_channels, channel_id)
                    THEN Store(_channels, channel_id,
                               SortByStart(<<>>, _channels.at[channel_id]))
                    ELSE _channels
    /\ UNCHANGED <<plVars, plHist, _programs_count, added_programs, ctlVars, appVars,
                   other, uiVars, merging>>

\* EPG.get_upcoming_programs
EPG_get_upcoming_programs(channel_id, reference_time, limit) ==
    /\ call' = [op |-> "EPG.get_upcoming_programs", channel_id |-> channel_id,
                reference_time |-> reference_time, limit |-> limit]
    /\ ret' = Return(GetUpcomingPrograms(CurrentStore, channel_id, reference_time, limit))
    /\ UNCHANGED <<plVars, plHist, epgVars, ctlVars, appVars, other, uiVars, merging>>

\* clear that empties the schedules and leaves the counter
EPG_clear_keeps_count ==
    /\ _channels' = EmptyDict
    /\ added_programs' = <<>>
    /\ call' = [op |-> "EPG.clear"]
    /\ ret' = Return(None)
    /\ UNCHANGED <<plVars, plHist, _programs_count, ctlVars, appVars, other, uiVars, merging>>

\* EPG.clear
EPG_clear ==
    /\ SetStore(EmptyStore)
    /\ added_programs' = <<>>
    /\ call' = [op |-> "EPG.clear"]
    /\ ret' = Return(None)
    /\ UNCHANGED <<plVars, plHist, ctlVars, appVars, other, uiVars, merging>>

\* EPG.channels
EPG_channels_property ==
    /\ call' = [op |-> "EPG.channels"]
    /\ ret' = Return(EPG_channels(CurrentStore))
    /\ UNCHANGED <<plVars, plHist, epgVars, ctlVars, appVars, other, uiVars, merging>>

\* EPG.__len__
EPG_len ==
    /\ call' = [op |-> "EPG.__len__"]
    /\ ret' = Return(_programs_count)
    /\ UNCHANGED <<plVars, plHist, epgVars, ctlVars, appVars, other, uiVars, merging>>

(***************************************************************************)
(* EPGParser (utils/epg_parser.py)                                         *)
(***************************************************************************)
\* A date attribute: `time` is what strptime reads from it and `valid` says
\* whether one of the two accepted formats matches it
DateStr(valid, time) == [valid |-> valid, time |-> time]

\* EPGParser.parse_date
parse_date(date_str) ==
    IF date_str.valid THEN Return(date_str.time) ELSE Raise("ValueError")

\* a <programme> element: the channel attribute (None when missing), the
\* start and stop attributes and the text of the <title> child (None when
\* there is no such child)
Programme(channel, start, stop, title) ==
    [channel |-> channel, start |-> start, stop |-> stop, title |-> title]

\* the loop body of EPGParser.parse: skip the element without a channel or
\* with a date that does not parse, else add_program
ParseProgramme(store, program) ==
    IF program.channel = None \/ program.channel = Some(EmptyStr) THEN store
    ELSE IF parse_date(program.start).raised # "" \/ parse_date(program.stop).raised # ""
         THEN store
         ELSE AddProgram(store, program.channel[1],
                         Program(IF program.title = None THEN "No Title" ELSE program.title[1],
                                 parse_date(program.start).value,
                                 parse_date(program.stop).value))

\* the loop leaving at the first element it cannot use (break in place of
\* continue)
RECURSIVE ParseProgrammes_stops_at_malformed(_, _)
ParseProgrammes_stops_at_malformed(store, programmes) ==
    IF programmes = <<>> THEN store
    ELSE IF ParseProgramme(store, Head(programmes)) = store THEN store
    ELSE ParseProgrammes_stops_at_malformed(ParseProgramme(store, Head(programmes)),
                                            Tail(programmes))

\* `for program in root.findall(".//programme")`
RECURSIVE ParseProgrammes(_, _)
ParseProgrammes(store, programmes) ==
    IF programmes = <<>> THEN store
    ELSE ParseProgrammes(ParseProgramme(store, Head(programmes)), Tail(programmes))

\* what a path can hold when it is read: nothing, a zero-length file, a
\* file that is not well-formed XML, a document with another root element,
\* or an XMLTV document with its <programme> elements
MissingFile == [kind |-> "missing", programmes |-> <<>>]
EmptyFile == [kind |-> "empty", programmes |-> <<>>]
MalformedFile == [kind |-> "malformed", programmes |-> <<>>]
OtherRootFile(programmes) == [kind |-> "other_root", programmes |-> programmes]
XmltvFile(programmes) == [kind |-> "tv", programmes |-> programmes]

\* the parser without the test of the root element: <programme> elements
\* are taken from under any root
EPGParser_parse_under_any_root(file) ==
    IF file.kind = "missing" THEN Raise("FileNotFoundError")
    ELSE IF file.kind = "empty" THEN Raise("ValueError")
    ELSE IF file.kind = "malformed" THEN Raise("ValueError")
    ELSE Return(ParseProgrammes(EmptyStore, file.programmes))

\* EPGParser.parse: the store of the document, or the exception raised
EPGParser_parse(file) ==
    IF file.kind = "missing" THEN Raise("FileNotFoundError")
    ELSE IF file.kind = "empty" THEN Raise("ValueError")
    ELSE IF file.kind = "malformed" THEN Raise("ValueError")
    ELSE IF file.kind # "tv" THEN Raise("ValueError")
    ELSE Return(ParseProgrammes(EmptyStore, file.programmes))

\* EPGParser.parse applied to what a path holds
EPGParser_parse_file(file) ==
    /\ call' = [op |-> "EPGParser.parse", file |-> file]
    /\ ret' = EPGParser_parse(file)
    /\ UNCHANGED <<plVars, plHist, epgVars, ctlVars, appVars, other, uiVars, merging>>

(***************************************************************************)
(* EPGController (controllers/epg_controller.py)                           *)
(***************************************************************************)
Id_zz == <<122, 122>>
Str_bbc == <<98, 98, 99>>
Str_B_C == <<66, 32, 67>>

\* the channels the mapper is exercised with: two as the M3U parser makes
\* them (no id) and one as the database returns it (with id).  "B C" with
\* epg_id "bbc" matches by epg_id and, normalized, by name; "bbc" matches by
\* name; "B C" with an empty epg_id matches normalized only; each matches
\* nothing when the store lacks the key
MapperChannels ==
    { Channel(Str_B_C, "u1", EmptyStr, Id_bbc, 0, None),
      Channel(Str_bbc, "u2", EmptyStr, EmptyStr, 0, None),
      Channel(Str_B_C, "u3", EmptyStr, EmptyStr, 0, Some(1)) }

\* the <programme> elements documents are made of: one for "bbc", one
\* without <title> for "b c", one without a channel attribute
Programmes ==
    { Programme(Some(Id_bbc), DateStr(TRUE, 0), DateStr(TRUE, 1), Some("News")),
      Programme(Some(Id_b_c), DateStr(TRUE, 1), DateStr(TRUE, 2), None),
      Programme(None,         DateStr(TRUE, 0), DateStr(FALSE, 1), Some("News")) }

Files ==
    {MissingFile, EmptyFile, MalformedFile, OtherRootFile(<<>>)}
        \cup {XmltvFile(d) : d \in SeqsUpTo(Programmes, MaxDoc)}

Paths == {"a.xml", "b.xml"}

\* `not self.epg`: EPG defines __len__, so a store is falsy when it is None
\* and also when it holds no program
NotEpg(e) == e = None \/ e[1].programs_count = 0

\* str.lower().replace(" ", "")
RECURSIVE RemoveSpaces(_)
RemoveSpaces(str) ==
    IF str = <<>> THEN <<>>
    ELSE IF Head(str) = 32 THEN RemoveSpaces(Tail(str))
    ELSE <<Head(str)>> \o RemoveSpaces(Tail(str))

Clean(str) == RemoveSpaces(lower(str))

\* load_epg parsing into the store that is installed (add_program on
\* self.epg) where there is one
LoadEpg_into_installed_store(file_path, file) ==
    IF file.kind # "tv"
    THEN [epg |-> epg, epg_path |-> epg_path, ret |-> Return(FALSE)]
    ELSE [epg |-> Some(ParseProgrammes(IF epg = None THEN EmptyStore ELSE epg[1],
                                       file.programmes)),
          epg_path |-> Some(file_path), ret |-> Return(TRUE)]

\* the outcome of load_epg on the controller state: the state it leaves and
\* what it returns
LoadEpg(file_path, file) ==
    IF file.kind = "missing"
    THEN [epg |-> epg, epg_path |-> epg_path, ret |-> Return(FALSE)]
    ELSE LET parsed == EPGParser_parse(file)
         IN  IF parsed.raised # ""
             THEN [epg |-> epg, epg_path |-> epg_path, ret |-> Return(FALSE)]
             ELSE [epg |-> Some(parsed.value), epg_path |-> Some(file_path),
                   ret |-> Return(TRUE)]

\* EPGController.load_epg; `file` is what the path holds when it is read
load_epg(file_path, file) ==
    LET done == LoadEpg(file_path, file)
    IN  /\ epg' = done.epg
        /\ epg_path' = done.epg_path
        /\ ret' = done.ret
        /\ call' = [op |-> "load_epg", file_path |-> file_path, file |-> file]
        /\ UNCHANGED <<channel_map, plVars, plHist, epgVars, appVars, other, uiVars, merging>>

\* EPGController.reload_epg; `file` is what self.epg_path holds now
reload_epg(file) ==
    LET done == IF epg_path = None
                THEN [epg |-> epg, epg_path |-> epg_path, ret |-> Return(FALSE)]
                ELSE LoadEpg(epg_path[1], file)
    IN  /\ epg' = done.epg
        /\ epg_path' = done.epg_path
        /\ ret' = done.ret
        /\ call' = [op |-> "reload_epg", file |-> file]
        /\ UNCHANGED <<channel_map, plVars, plHist, epgVars, appVars, other, uiVars, merging>>

\* map_channel_to_epg without the test that the EPG id is a key of the store
map_channel_to_epg_unchecked(channel, epg_id) ==
    /\ channel_map' = IF NotEpg(epg) THEN channel_map
                      ELSE Put(channel_map, channel.id, epg_id)
    /\ call' = [op |-> "map_channel_to_epg", channel |-> channel, epg_id |-> epg_id]
    /\ ret' = Return(None)
    /\ UNCHANGED <<epg, epg_path, plVars, plHist, epgVars, appVars, other, uiVars, merging>>

\* EPGController.map_channel_to_epg
map_channel_to_epg(channel, epg_id) ==
    /\ channel_map' =
           IF NotEpg(epg) THEN channel_map
           ELSE IF epg_id \notin Range(EPG_channels(epg[1])) THEN channel_map
           ELSE Put(channel_map, channel.id, epg_id)
    /\ call' = [op |-> "map_channel_to_epg", channel |-> channel, epg_id |-> epg_id]
    /\ ret' = Return(None)
    /\ UNCHANGED <<epg, epg_path, plVars, plHist, epgVars, appVars, other, uiVars, merging>>

\* the loop of auto_map_channels from the map and count reached so far:
\* reading channel.tvg_id raises AttributeError on an object without that
\* attribute, and what was mapped before it stays mapped
RECURSIVE AutoMapLoop(_, _, _, _)
AutoMapLoop(map, mapped_count, rest, keys) ==
    IF rest = <<>> THEN [channel_map |-> map, ret |-> Return(mapped_count)]
    ELSE LET channel == Head(rest)
             clean == {i \in 1..Len(keys) : Clean(keys[i]) = Clean(channel.name)}
         IN  IF "tvg_id" \notin DOMAIN channel
             THEN [channel_map |-> map, ret |-> Raise("AttributeError")]
             ELSE IF channel.tvg_id # EmptyStr /\ channel.tvg_id \in Range(keys)
             THEN AutoMapLoop(Put(map, channel.id, channel.tvg_id), mapped_count + 1,
                              Tail(rest), keys)
             ELSE IF channel.name \in Range(keys)
             THEN AutoMapLoop(Put(map, channel.id, channel.name), mapped_count + 1,
                              Tail(rest), keys)
             ELSE IF clean # {}
             THEN AutoMapLoop(Put(map, channel.id,
                                  keys[CHOOSE i \in clean : \A j \in clean : i <= j]),
                              mapped_count + 1, Tail(rest), keys)
             ELSE AutoMapLoop(map, mapped_count, Tail(rest), keys)

\* the outcome of auto_map_channels
AutoMap(chs) ==
    IF NotEpg(epg) THEN [channel_map |-> channel_map, ret |-> Return(0)]
    ELSE AutoMapLoop(channel_map, 0, chs, EPG_channels(epg[1]))

\* EPGController.auto_map_channels
auto_map_channels(chs) ==
    LET done == AutoMap(chs)
    IN  /\ channel_map' = done.channel_map
        /\ ret' = done.ret
        /\ call' = [op |-> "auto_map_channels", channels |-> chs]
        /\ UNCHANGED <<epg, epg_path, plVars, plHist, epgVars, appVars, other, uiVars, merging>>

\* self.channel_map.get(channel.id)
EpgIdFor(map, channel) == DictGet(map, channel.id)

\* EPGController.get_epg_id_for_channel
get_epg_id_for_channel(channel) ==
    /\ call' = [op |-> "get_epg_id_for_channel", channel |-> channel]
    /\ ret' = Return(EpgIdFor(channel_map, channel))
    /\ UNCHANGED <<ctlVars, plVars, plHist, epgVars, appVars, other, uiVars, merging>>

(***************************************************************************)
(* M3UParser (utils/m3u_parser.py and simple_iptv/utils/m3u_parser.py)     *)
(***************************************************************************)
\* Channel of models/channel.py, the class utils/m3u_parser.py builds
M3UChannel(name, url, group, logo, epg_id) ==
    [name |-> name, url |-> url, group |-> group, logo |-> logo, epg_id |-> epg_id,
     id |-> None]

\* Channel of simple_iptv/models/playlist.py
SimpleChannel(name, url, group, logo, epg_id) ==
    [name |-> name, url |-> url, group |-> group, logo |-> logo, epg_id |-> epg_id,
     id |-> None]

\* The lines of a playlist file after line.strip().  A line is blank, or
\* starts with "#EXTM3U" (`rest` is what follows on the line), or starts
\* with "#EXTINF" (`matches` says whether the regular expression of the
\* parser matches it, and the attributes are its groups, None for a group
\* that did not take part), or is another line starting with "#", or is
\* any other text (`scheme` is what it has in front of "://", "" if
\* nothing).  `no` is the line's number in the file, so that two lines with
\* the same text are two lines.
BlankLine == [kind |-> "blank"]
HeaderLine(rest) == [kind |-> "header", rest |-> rest]
ExtinfLine(matches, tvg_id, tvg_name, group_title, tvg_logo, title) ==
    [kind |-> "extinf", matches |-> matches, tvg_id |-> tvg_id, tvg_name |-> tvg_name,
     group_title |-> group_title, tvg_logo |-> tvg_logo, title |-> title]
CommentLine == [kind |-> "comment"]
TextLine(scheme, text) == [kind |-> "text", scheme |-> scheme, text |-> text]

Str_VOD == <<86, 79, 68>>
Str_vod == <<118, 111, 100>>
Str_movie == <<109, 111, 118, 105, 101>>
Str_film == <<102, 105, 108, 109>>
Str_series == <<115, 101, 114, 105, 101, 115>>
UnnamedChannel == <<85, 110, 110, 97, 109, 101, 100, 32, 67, 104, 97, 110, 110, 101, 108>>

\* str.strip() on the ASCII space
RECURSIVE LStrip(_)
LStrip(str) == IF str # <<>> /\ Head(str) = 32 THEN LStrip(Tail(str)) ELSE str
RECURSIVE RStrip(_)
RStrip(str) ==
    IF str # <<>> /\ str[Len(str)] = 32 THEN RStrip(SubSeq(str, 1, Len(str) - 1)) ELSE str
Strip(str) == RStrip(LStrip(str))

\* M3UParser._sanitize_text on ASCII text: the normalisation and the
\* replacements leave it alone, and the result is stripped
_sanitize_text(text) == IF text = <<>> THEN <<>> ELSE Strip(text)

\* `match.group(i) or ""`
OrEmpty(group) == IF group = None THEN EmptyStr ELSE group[1]

\* `any(x in group.lower() for x in ['movie', 'film', 'series', 'vod'])`
IsVod(group) ==
    \E x \in {Str_movie, Str_film, Str_series, Str_vod} : IsSubstring(x, lower(group))

\* line.startswith(("http://", "https://", "rtmp://", "rtsp://"))
StreamSchemes == {"http", "https", "rtmp", "rtsp"}

\* the pending metadata made from a matching #EXTINF line
PendingOf(line) ==
    LET epg_id == _sanitize_text(OrEmpty(line.tvg_id))
        name == _sanitize_text(IF line.tvg_name # None /\ line.tvg_name # Some(EmptyStr)
                               THEN line.tvg_name[1]
                               ELSE OrEmpty(line.title))
        group == _sanitize_text(OrEmpty(line.group_title))
    IN  [name |-> IF name = EmptyStr THEN UnnamedChannel ELSE name,
         group |-> IF group = EmptyStr THEN Uncategorized ELSE group,
         logo |-> OrEmpty(line.tvg_logo),
         epg_id |-> epg_id,
         vod |-> IsVod(group)]

\* one pass of the loop body of M3UParser._parse_channels: `st` holds the
\* channels made so far, the pending metadata (None when there is none)
\* and, for each channel made, the numbers of the #EXTINF line and of the
\* URL line it was made from
ParseLine(st, line, no) ==
    IF line.kind = "blank" THEN st
    ELSE IF line.kind = "extinf" THEN
        IF ~line.matches THEN st
        ELSE IF PendingOf(line).vod THEN [st EXCEPT !.current_channel = None]
        ELSE [st EXCEPT !.current_channel = Some(PendingOf(line)), !.current_no = no]
    ELSE IF line.kind = "text" /\ st.current_channel # None THEN
        IF line.scheme \in StreamSchemes
        THEN [st EXCEPT !.channels = Append(@, M3UChannel(st.current_channel[1].name,
                                                          line.text,
                                                          st.current_channel[1].group,
                                                          st.current_channel[1].logo,
                                                          st.current_channel[1].epg_id)),
                        !.made_from = Append(@, <<st.current_no, no>>),
                        !.current_channel = None]
        ELSE [st EXCEPT !.current_channel = None]
    ELSE st

\* `for line in file:` from line number `no` on
RECURSIVE ParseLines(_, _, _)
ParseLines(st, lines, no) ==
    IF no > Len(lines) THEN st
    ELSE ParseLines(ParseLine(st, lines[no], no), lines, no + 1)

\* M3UParser._parse_channels
_parse_channels(lines) ==
    ParseLines([channels |-> <<>>, current_channel |-> None, current_no |-> 0,
                made_from |-> <<>>], lines, 1)

\* what a playlist path holds when it is read: whether the file exists,
\* whether its bytes start with the UTF-8 byte order mark, whether they
\* decode as UTF-8 and as Windows-1252 (Latin-1 decodes any bytes), and
\* the lines that follow the mark
M3UFile(exists, bom, utf8, cp1252, lines) ==
    [exists |-> exists, bom |-> bom, utf8 |-> utf8, cp1252 |-> cp1252, lines |-> lines]

\* raw_content.decode(encoding) raises UnicodeError
DecodeFails(file, encoding) ==
    \/ encoding \in {"utf-8", "utf-8-sig"} /\ ~file.utf8
    \/ encoding = "cp1252" /\ ~file.cp1252

\* the decoded text has the byte order mark in front of the first line:
\* every codec but utf-8-sig keeps it, and str.strip() does not remove it
KeepsMark(file, encoding) == file.bom /\ encoding # "utf-8-sig"

\* decoded_content.strip().startswith('#EXTM3U'): the text starts, after
\* leading whitespace and blank lines, with "#EXTM3U"
RECURSIVE StartsWithHeader(_)
StartsWithHeader(lines) ==
    IF lines = <<>> THEN FALSE
    ELSE IF Head(lines).kind = "blank" THEN StartsWithHeader(Tail(lines))
    ELSE Head(lines).kind = "header"

\* the loop of M3UParser.parse giving up at the first encoding that decodes
\* the bytes to a text without the header
RECURSIVE TryEncodings_fails_at_first_decoding(_, _, _)
TryEncodings_fails_at_first_decoding(file, encodings, tried) ==
    IF encodings = <<>> THEN [ret |-> Raise("ValueError"), tried |-> tried, made_from |-> <<>>]
    ELSE LET encoding == Head(encodings)
         IN  IF DecodeFails(file, encoding)
             THEN TryEncodings_fails_at_first_decoding(file, Tail(encodings),
                                                       Append(tried, encoding))
             ELSE IF KeepsMark(file, encoding) \/ ~StartsWithHeader(file.lines)
                     \/ file.lines[1].kind # "header"
             THEN [ret |-> Raise("ValueError"), tried |-> Append(tried, encoding),
                   made_from |-> <<>>]
             ELSE [ret |-> Return(_parse_channels(file.lines).channels),
                   tried |-> Append(tried, encoding),
                   made_from |-> _parse_channels(file.lines).made_from]

\* `for encoding in encodings:` of M3UParser.parse: the channels returned
\* under the first encoding that decodes the bytes and shows the header,
\* or ValueError after the last one; `tried` lists the encodings tried
RECURSIVE TryEncodings(_, _, _)
TryEncodings(file, encodings, tried) ==
    IF encodings = <<>> THEN [ret |-> Raise("ValueError"), tried |-> tried, made_from |-> <<>>]
    ELSE LET encoding == Head(encodings)
             next == TryEncodings(file, Tail(encodings), Append(tried, encoding))
         IN  IF DecodeFails(file, encoding) THEN next
             ELSE IF KeepsMark(file, encoding) \/ ~StartsWithHeader(file.lines) THEN next
             ELSE IF file.lines[1].kind # "header" THEN next
             ELSE [ret |-> Return(_parse_channels(file.lines).channels),
                   tried |-> Append(tried, encoding),
                   made_from |-> _parse_channels(file.lines).made_from]

\* encodings = ['utf-8', 'utf-8-sig', 'latin1', 'cp1252'], with 'utf-8-sig'
\* put in front when the bytes start with the byte order mark
EncodingsFor(file) ==
    (IF file.bom THEN <<"utf-8-sig">> ELSE <<>>) \o <<"utf-8", "utf-8-sig", "latin1", "cp1252">>

\* the outcome of M3UParser.parse of utils/m3u_parser.py
M3UParse(file) ==
    IF ~file.exists
    THEN [ret |-> Raise("FileNotFoundError"), tried |-> <<>>, made_from |-> <<>>]
    ELSE TryEncodings(file, EncodingsFor(file), <<>>)

\* the loop of M3UParser.parse of simple_iptv/utils/m3u_parser.py over
\* lines[1:]: any line that does not start with "#" completes the pending
\* channel, and the attributes are taken as they are
RECURSIVE SimpleParseLines(_, _, _)
SimpleParseLines(st, lines, no) ==
    IF no > Len(lines) THEN st
    ELSE LET line == lines[no]
             name == IF line.tvg_name # None /\ line.tvg_name # Some(EmptyStr)
                     THEN line.tvg_name[1] ELSE OrEmpty(line.title)
             after ==
                 IF line.kind = "extinf" /\ line.matches
                 THEN [st EXCEPT !.current_channel =
                                     Some([name |-> name, group |-> OrEmpty(line.group_title),
                                           logo |-> OrEmpty(line.tvg_logo),
                                           epg_id |-> OrEmpty(line.tvg_id)]),
                                 !.current_no = no]
                 ELSE IF line.kind = "text" /\ st.current_channel # None
                 THEN [st EXCEPT !.channels =
                                     Append(@, SimpleChannel(st.current_channel[1].name,
                                                             line.text,
                                                             st.current_channel[1].group,
                                                             st.current_channel[1].logo,
                                                             st.current_channel[1].epg_id)),
                                 !.made_from = Append(@, <<st.current_no, no>>),
                                 !.current_channel = None]
                 ELSE st
         IN  SimpleParseLines(after, lines, no + 1)

\* the outcome of M3UParser.parse of simple_iptv/utils/m3u_parser.py: the
\* file is read as UTF-8 and no other encoding is tried
SimpleM3UParse(file) ==
    IF ~file.exists THEN [ret |-> Raise("FileNotFoundError"), made_from |-> <<>>]
    ELSE IF ~file.utf8 THEN [ret |-> Raise("UnicodeDecodeError"), made_from |-> <<>>]
    ELSE IF file.lines = <<>> THEN [ret |-> Raise("ValueError"), made_from |-> <<>>]
    ELSE IF file.bom \/ file.lines[1].kind # "header"
    THEN [ret |-> Raise("ValueError"), made_from |-> <<>>]
    ELSE LET st == SimpleParseLines([channels |-> <<>>, current_channel |-> None,
                                     current_no |-> 0, made_from |-> <<>>],
                                    file.lines, 2)
         IN  [ret |-> Return(st.channels), made_from |-> st.made_from]

\* M3UParser._parse_channels of utils/m3u_parser.py
M3UParser_parse_channels(lines) ==
    LET done == _parse_channels(lines)
    IN  /\ call' = [op |-> "M3UParser._parse_channels", lines |-> lines,
                    made_from |-> done.made_from]
        /\ ret' = Return(done.channels)
        /\ UNCHANGED <<plVars, plHist, epgVars, ctlVars, appVars, other, uiVars, merging>>

\* M3UParser.parse of utils/m3u_parser.py
M3UParser_parse(file) ==
    LET done == M3UParse(file)
    IN  /\ call' = [op |-> "M3UParser.parse", file |-> file,
                    tried |-> done.tried, made_from |-> done.made_from]
        /\ ret' = done.ret
        /\ UNCHANGED <<plVars, plHist, epgVars, ctlVars, appVars, other, uiVars, merging>>

\* M3UParser.parse of simple_iptv/utils/m3u_parser.py
SimpleM3UParser_parse(file) ==
    LET done == SimpleM3UParse(file)
    IN  /\ call' = [op |-> "simple_iptv.M3UParser.parse", file |-> file,
                    made_from |-> done.made_from]
        /\ ret' = done.ret
        /\ UNCHANGED <<plVars, plHist, epgVars, ctlVars, appVars, other, uiVars, merging>>

(***************************************************************************)
(* PlaylistController (controllers/playlist_controller.py) and the EPG     *)
(* queries of EPGController                                                *)
(***************************************************************************)
\* what self.playlist can refer to: a Playlist object (its channels and its
\* indices), or the list of channels M3UParser.parse returns
PlaylistObject(chs) == [type |-> "Playlist", channels |-> chs, ix |-> _rebuild_indexes(chs)]
ListObject(items) == [type |-> "list", channels |-> items, ix |-> EmptyIndexes]

\* `not self.playlist`: true for None and for an empty list; a Playlist
\* object defines neither __bool__ nor __len__ and is always truthy
NotPlaylist(ref) == ref = None \/ (ref[1].type = "list" /\ ref[1].channels = <<>>)

\* PlaylistController.__init__
PlaylistControllerInit ==
    /\ playlist = Some(PlaylistObject(<<>>))
    /\ _last_loaded_path = None

\* PlaylistController._load_playlist_worker for a local file: the tuple
\* (success, data, path) it returns
_load_playlist_worker(path, file) ==
    LET parsed == M3UParse(file)
    IN  IF parsed.ret.raised # ""
        THEN [success |-> FALSE, data |-> ListObject(<<>>), path |-> None]
        ELSE [success |-> TRUE, data |-> ListObject(parsed.ret.value), path |-> Some(path)]

\* PlaylistController.load_playlist_from_path: self.playlist is set to None,
\* then Playlist.from_path, which the class does not have, raises
\* AttributeError; the handler catches it, shows the failure and returns
\* False
load_playlist_from_path(path) ==
    /\ playlist' = None
    /\ notifications' = Append(notifications, "ERROR")
    /\ call' = [op |-> "load_playlist_from_path", path |-> path]
    /\ ret' = Return(FALSE)
    /\ UNCHANGED <<_last_loaded_path, plVars, plHist, epgVars, ctlVars, other, requests,
                   widgetVars, merging>>

\* PlaylistController._on_playlist_loaded: a successful result for another
\* path than the last one is installed, and len(self.playlist.channels)
\* then raises AttributeError when what was installed is a list, else
\* _update_ui_safely shows the success; a failed result is shown as a
\* failure
_on_playlist_loaded(result) ==
    /\ call' = [op |-> "_on_playlist_loaded", result |-> result]
    /\ IF result.success /\ _last_loaded_path # result.path
       THEN /\ _last_loaded_path' = result.path
            /\ playlist' = Some(result.data)
            /\ ret' = IF result.data.type = "list" THEN Raise("AttributeError")
                      ELSE Return(None)
            /\ notifications' = IF result.data.type = "list" THEN notifications
                                ELSE Append(notifications, "SUCCESS")
       ELSE /\ UNCHANGED appVars
            /\ ret' = Return(None)
            /\ notifications' = IF result.success THEN notifications
                                ELSE Append(notifications, "ERROR")
    /\ UNCHANGED <<plVars, plHist, epgVars, ctlVars, other, requests, widgetVars, merging>>

\* the names PlaylistController.refresh_channels puts into the channel
\* list for a Playlist object
Listing(obj, category, search_text) ==
    LET chs == IF category = AllCategory THEN obj.channels
               ELSE DictGetList(obj.ix.categories, category)
        found == IF search_text = EmptyStr THEN chs
                 ELSE SelectSeqBy(chs, {c \in Range(chs) :
                                           IsSubstring(lower(search_text), lower(c.name))})
    IN  [i \in 1..Len(found) |-> found[i].name]

\* PlaylistController.refresh_channels with `category` the current text of
\* the category box: returns at once without a playlist, and on a list
\* the attribute access raises AttributeError, which the handler catches;
\* the value recorded is the list of names shown, None when none was shown
refresh_channels(category, search_text) ==
    /\ call' = [op |-> "refresh_channels", category |-> category,
                search_text |-> search_text]
    /\ ret' = IF NotPlaylist(playlist) THEN Return(None)
              ELSE IF playlist[1].type = "list" THEN Return(None)
              ELSE Return(Some(Listing(playlist[1], category, search_text)))
    /\ UNCHANGED <<appVars, plVars, plHist, epgVars, ctlVars, other, uiVars, merging>>

\* EPGController.get_current_program with `now` for datetime.now()
EPGController_get_current_program(channel, now) ==
    /\ call' = [op |-> "EPGController.get_current_program", channel |-> channel,
                now |-> now]
    /\ ret' = IF NotEpg(epg) THEN Return(None)
              ELSE IF EpgIdFor(channel_map, channel) \in {None, Some(EmptyStr)}
              THEN Return(None)
              ELSE Return(GetCurrentProgram(epg[1], EpgIdFor(channel_map, channel)[1],
                                            now - channel.time_shift))
    /\ UNCHANGED <<appVars, plVars, plHist, epgVars, ctlVars, other, uiVars, merging>>

(***************************************************************************)
(* The ingestion triggers (controllers/player_controller.py and            *)
(* controllers/playlist_controller.py)                                     *)
(***************************************************************************)
\* Config.REQUEST_TIMEOUT and Config.MAX_RETRIES
REQUEST_TIMEOUT == 30
MAX_RETRIES == 3

\* how a source answers one request: with the document, with an error
\* status (raise_for_status raises HTTPError), or not within the timeout
\* (requests.get raises Timeout); a source is its answers to the requests
\* made to it one after the other
Answers == {"ok", "http_error", "timeout"}
Sources == [1..(MAX_RETRIES + 1) -> Answers]

\* nothing requested and nothing shown yet
NetInit ==
    /\ requests = <<>>
    /\ notifications = <<>>

\* PlayerController.load_epg_url with `url` the text of the URL field: one
\* requests.get(url, timeout=30); a RequestException is shown as a failure.
\* A document that arrives goes to _load_epg_from_file, where
\* EPGParser.parse_xmltv, which utils/epg_parser.py does not have, raises
\* AttributeError, shown as a failure too
load_epg_url(url, source) ==
    /\ call' = [op |-> "load_epg_url", url |-> url, source |-> source]
    /\ IF url = ""
       THEN /\ notifications' = Append(notifications, "WARNING")
            /\ UNCHANGED requests
       ELSE /\ requests' = Append(requests, Some(30))
            /\ notifications' = Append(notifications, "ERROR")
    /\ ret' = Return(None)
    /\ UNCHANGED <<plVars, plHist, epgVars, ctlVars, appVars, other, widgetVars, merging>>

\* PlaylistController._load_playlist_worker for a URL: one
\* requests.get(path, timeout=Config.REQUEST_TIMEOUT); what arrives (latin1
\* decodes any bytes) is written to a temporary file and parsed; any
\* exception makes the result (False, str(e), None, None)
_load_playlist_worker_url(path, source, file) ==
    IF source[1] # "ok"
    THEN [success |-> FALSE, data |-> ListObject(<<>>), path |-> None]
    ELSE _load_playlist_worker(path, file)

\* the worker run for a URL; its result goes to _on_playlist_loaded
PlaylistController_load_playlist_worker(path, source, file) ==
    /\ call' = [op |-> "_load_playlist_worker", path |-> path, source |-> source]
    /\ requests' = Append(requests, Some(REQUEST_TIMEOUT))
    /\ ret' = Return(_load_playlist_worker_url(path, source, file))
    /\ UNCHANGED <<plVars, plHist, epgVars, ctlVars, appVars, other, notifications,
                   widgetVars, merging>>

(***************************************************************************)
(* PlayerWidget (views/player_widget.py)                                   *)
(***************************************************************************)
\* PlayerWidget.max_reconnect_attempts
max_reconnect_attempts == 5

\* PlayerWidget.__init__ with VLC found: the timer is a Timer that is never
\* started
PlayerWidgetInit ==
    /\ vlc_available = TRUE
    /\ current_url = None
    /\ reconnect_attempts = 0
    /\ reconnect_timer = "new"
    /\ player = "idle"
    /\ timer_threads = 0
    /\ status = None
    /\ auto_reconnects = 0
    /\ halted = FALSE

\* threading.Timer.cancel: a timer that has not fired never calls its
\* function; one that has fired is not affected
Cancel(timer) == IF timer \in {"new", "waiting"} THEN "cancelled" ELSE timer

\* the body of PlayerWidget.play behind the test of vlc_available;
\* `result` is what player.play() returns, -1 when playback cannot start
Play(url, result) ==
    /\ reconnect_timer' = Cancel(reconnect_timer)
    /\ reconnect_attempts' = 0
    /\ current_url' = Some(url)
    /\ status' = Some("Connecting to stream...")
    /\ player' = IF result = -1 THEN "stopped" ELSE "opening"

\* PlayerWidget.play, called for the user
play(url, result) ==
    /\ call' = [op |-> "play", url |-> url]
    /\ IF vlc_available
       THEN /\ Play(url, result)
            /\ auto_reconnects' = 0
            /\ halted' = FALSE
            /\ ret' = IF result = -1 THEN Raise("RuntimeError") ELSE Return(None)
            /\ UNCHANGED <<vlc_available, timer_threads>>
       ELSE /\ ret' = Return(None)
            /\ UNCHANGED widgetVars
    /\ UNCHANGED <<plVars, plHist, epgVars, ctlVars, appVars, other, netVars, merging>>

\* PlayerWidget._on_media_playing: VLC reports that the stream plays
_on_media_playing ==
    /\ player = "opening"
    /\ player' = "playing"
    /\ reconnect_attempts' = 0
    /\ auto_reconnects' = 0
    /\ call' = [op |-> "_on_media_playing"]
    /\ ret' = Return(None)
    /\ UNCHANGED <<vlc_available, current_url, reconnect_timer, timer_threads, status, halted>>
    /\ UNCHANGED <<plVars, plHist, epgVars, ctlVars, appVars, other, netVars, merging>>

\* PlayerWidget._handle_playback_error: VLC reports an error of the stream
\* it opens or plays
_handle_playback_error ==
    /\ player \in {"opening", "playing"}
    /\ player' = "error"
    /\ IF current_url # None /\ reconnect_attempts < max_reconnect_attempts
       THEN /\ reconnect_attempts' = reconnect_attempts + 1
            /\ status' = Some("Stream connection failed. Reconnecting")
            /\ reconnect_timer' = "waiting"
       ELSE /\ status' = Some("Stream unavailable")
            /\ UNCHANGED <<reconnect_attempts, reconnect_timer>>
    /\ call' = [op |-> "_handle_playback_error"]
    /\ ret' = Return(None)
    /\ UNCHANGED <<vlc_available, current_url, timer_threads, auto_reconnects, halted>>
    /\ UNCHANGED <<plVars, plHist, epgVars, ctlVars, appVars, other, netVars, merging>>

\* the thread of the reconnect timer finds the timer not cancelled when the
\* delay is over; it calls _reconnect next
Timer_run ==
    /\ reconnect_timer = "waiting"
    /\ reconnect_timer' = "fired"
    /\ timer_threads' = timer_threads + 1
    /\ call' = [op |-> "Timer.run"]
    /\ ret' = Return(None)
    /\ UNCHANGED <<vlc_available, current_url, reconnect_attempts, player, status,
                   auto_reconnects, halted>>
    /\ UNCHANGED <<plVars, plHist, epgVars, ctlVars, appVars, other, netVars, merging>>

\* PlayerWidget._reconnect, run by a timer thread: play(self.current_url),
\* whose exception it catches
_reconnect(result) ==
    /\ timer_threads > 0
    /\ timer_threads' = timer_threads - 1
    /\ IF current_url # None /\ vlc_available
       THEN /\ Play(current_url[1], result)
            /\ auto_reconnects' = auto_reconnects + 1
       ELSE UNCHANGED <<current_url, reconnect_attempts, reconnect_timer, player, status,
                        auto_reconnects>>
    /\ call' = [op |-> "_reconnect"]
    /\ ret' = Return(None)
    /\ UNCHANGED <<vlc_available, halted>>
    /\ UNCHANGED <<plVars, plHist, epgVars, ctlVars, appVars, other, netVars, merging>>

\* PlayerWidget.stop
stop ==
    /\ IF vlc_available
       THEN /\ player' = "stopped"
            /\ reconnect_timer' = Cancel(reconnect_timer)
            /\ reconnect_attempts' = 0
       ELSE UNCHANGED <<player, reconnect_timer, reconnect_attempts>>
    /\ halted' = TRUE
    /\ call' = [op |-> "stop"]
    /\ ret' = Return(None)
    /\ UNCHANGED <<vlc_available, current_url, timer_threads, status, auto_reconnects>>
    /\ UNCHANGED <<plVars, plHist, epgVars, ctlVars, appVars, other, netVars, merging>>

\* PlayerWidget.cleanup_vlc
cleanup_vlc ==
    /\ IF vlc_available
       THEN /\ player' = "released"
            /\ vlc_available' = FALSE
            /\ reconnect_timer' = Cancel(reconnect_timer)
       ELSE UNCHANGED <<player, vlc_available, reconnect_timer>>
    /\ halted' = TRUE
    /\ call' = [op |-> "cleanup_vlc"]
    /\ ret' = Return(None)
    /\ UNCHANGED <<current_url, reconnect_attempts, timer_threads, status, auto_reconnects>>
    /\ UNCHANGED <<plVars, plHist, epgVars, ctlVars, appVars, other, netVars, merging>>

(***************************************************************************)
(* Specifications                                                          *)
(***************************************************************************)
\* EPGController.__init__
ControllerInit ==
    /\ epg = None
    /\ epg_path = None
    /\ channel_map = <<>>

Init ==
    /\ PlaylistInit
    /\ EPGInit
    /\ ControllerInit
    /\ PlaylistControllerInit
    /\ OtherInit
    /\ NetInit
    /\ PlayerWidgetInit
    /\ call = [op |-> "__init__"]
    /\ ret = Return(None)

\* the inputs of the operations
MergeInputs == SeqsUpTo(PlaylistChannels, MaxMerge)
Queries == {EmptyStr, Str_b, Str_B, Str_N}
ProgramLists == {None} \cup {Some(ps) : ps \in SeqsUpTo(Programs, MaxList)}
Limits == 0..MaxLimit
AutoMapInputs == SeqsUpTo(MapperChannels, MaxAutoMap)

\* one Playlist under its operations
PlaylistNext ==
    \/ \E c \in PlaylistChannels : add_channel(c)
    \/ \E q \in MergeInputs : merge(q)
    \/ \E key \in SortKeys, reverse \in BOOLEAN : sort_channels(key, reverse)
    \/ clear
    \/ \E url \in Urls : get_channel_by_url(url)
    \/ \E c \in PlaylistChannels : get_channels_by_name(c.name)
    \/ categories
    \/ \E category \in Categories : get_channels_by_category(category)
    \/ \E query \in Queries : search_channels(query)

SpecPlaylist == Init /\ [][PlaylistNext]_vars

\* one EPG store under its operations
EPGNext ==
    \/ \E id \in EpgIds, ps \in ProgramLists : EPG_add_channel(id, ps)
    \/ \E id \in EpgIds, p \in Programs : EPG_add_program(id, p)
    \/ EPG_clear
    \/ \E id \in EpgIds : EPG_get_channel_data(id)
    \/ \E id \in EpgIds, t \in Times : EPG_get_current_program(id, t)
    \/ \E id \in EpgIds, t \in Times, limit \in Limits :
           EPG_get_upcoming_programs(id, t, limit)
    \/ EPG_channels_property
    \/ EPG_len

SpecEPG == Init /\ [][EPGNext]_vars

\* one EPGController under its operations
MapperNext ==
    \/ \E file_path \in Paths, file \in Files : load_epg(file_path, file)
    \/ \E file \in Files : reload_epg(file)
    \/ \E channel \in MapperChannels, epg_id \in EpgIds \cup {Id_zz} :
           map_channel_to_epg(channel, epg_id)
    \/ \E chs \in AutoMapInputs : auto_map_channels(chs)
    \/ \E channel \in MapperChannels : get_epg_id_for_channel(channel)

SpecMapper == Init /\ [][MapperNext]_vars

\* a Playlist and an EPG store side by side, for the lookups of both; the
\* two together hold at most MaxLookup channels and programs
WithinLookup == Len(channels) + _programs_count <= MaxLookup

LookupNext ==
    \/ \E c \in PlaylistChannels : add_channel(c) /\ WithinLookup'
    \/ \E key \in SortKeys, reverse \in BOOLEAN : sort_channels(key, reverse)
    \/ clear
    \/ \E url \in Urls : get_channel_by_url(url)
    \/ \E category \in Categories : get_channels_by_category(category)
    \/ \E id \in EpgIds, ps \in ProgramLists : EPG_add_channel(id, ps) /\ WithinLookup'
    \/ \E id \in EpgIds, p \in Programs : EPG_add_program(id, p) /\ WithinLookup'
    \/ EPG_clear
    \/ \E id \in EpgIds : EPG_get_channel_data(id)
    \/ \E id \in EpgIds, t \in Times : EPG_get_current_program(id, t)
    \/ \E id \in EpgIds, t \in Times, limit \in Limits :
           EPG_get_upcoming_programs(id, t, limit)

SpecLookup == Init /\ [][LookupNext]_vars

\* a Playlist and an EPG store that are filled, and the queries of both
QueriesNext ==
    \/ \E c \in PlaylistChannels : add_channel(c) /\ WithinLookup'
    \/ \E id \in EpgIds, p \in Programs : EPG_add_program(id, p) /\ WithinLookup'
    \/ \E id \in EpgIds, t \in Times : EPG_get_current_program(id, t)
    \/ \E id \in EpgIds, t \in Times, limit \in Limits :
           EPG_get_upcoming_programs(id, t, limit)
    \/ \E query \in Queries : search_channels(query)
    \/ \E category \in Categories : get_channels_by_category(category)
    \/ categories

SpecQueries == Init /\ [][QueriesNext]_vars

\* the lines playlist files are made of: two #EXTINF lines the regular
\* expression matches (one names the channel by its title and puts it in a
\* group, one by tvg-name without a group), one it does not match
\* ("#EXTINF:0,a"), one of a group of films, a blank line, a comment, the
\* header, a stream URL and a line with another scheme
Extinf_a == ExtinfLine(TRUE, Some(Id_bbc), None, Some(Str_N), None, Some(Str_a))
Extinf_b == ExtinfLine(TRUE, None, Some(Str_b), None, None, Some(Str_a))
Extinf_unmatched == ExtinfLine(FALSE, None, None, None, None, None)
Extinf_vod == ExtinfLine(TRUE, None, None, Some(Str_VOD), None, Some(Str_a))
BodyLines ==
    {BlankLine, CommentLine, Extinf_a, Extinf_b, Extinf_unmatched, Extinf_vod,
     TextLine("http", "http://u1"), TextLine("udp", "udp://u5")}
FirstLines == {HeaderLine(""), HeaderLine(" url-tvg=x"), BlankLine, Extinf_a}
Bodies == SeqsUpTo(BodyLines \cup {HeaderLine("")}, MaxLines)

\* how the bytes of a file decode: plain UTF-8, UTF-8 behind a byte order
\* mark, Latin-1 bytes that are not UTF-8, bytes that neither UTF-8 nor
\* Windows-1252 decodes
Codings ==
    { [bom |-> FALSE, utf8 |-> TRUE,  cp1252 |-> TRUE],
      [bom |-> TRUE,  utf8 |-> TRUE,  cp1252 |-> TRUE],
      [bom |-> FALSE, utf8 |-> FALSE, cp1252 |-> TRUE],
      [bom |-> FALSE, utf8 |-> FALSE, cp1252 |-> FALSE] }

M3UFiles ==
    {M3UFile(FALSE, FALSE, TRUE, TRUE, <<>>)}
        \cup {M3UFile(TRUE, c.bom, c.utf8, c.cp1252, <<>>) : c \in Codings}
        \cup {M3UFile(TRUE, c.bom, c.utf8, c.cp1252, <<first>> \o body) :
                  c \in Codings, first \in FirstLines, body \in Bodies}

\* nothing has been called yet
Fresh == call.op = "__init__"

\* the M3U parsers; they are static methods that keep nothing between
\* calls, so a behaviour applies one of them to one input
M3UNext ==
    \/ Fresh /\ \E lines \in SeqsUpTo(BodyLines, MaxLines) : M3UParser_parse_channels(lines)
    \/ Fresh /\ \E file \in M3UFiles : M3UParser_parse(file)
    \/ Fresh /\ \E file \in M3UFiles : SimpleM3UParser_parse(file)

SpecM3U == Init /\ [][M3UNext]_vars

\* the documents and playlist files the controllers reload from
ReloadDocs == {MalformedFile} \cup {XmltvFile(<<p>>) : p \in Programmes}
ReloadPlaylists ==
    { M3UFile(FALSE, FALSE, TRUE, TRUE, <<>>),
      M3UFile(TRUE, FALSE, TRUE, TRUE, <<HeaderLine("")>>),
      M3UFile(TRUE, FALSE, TRUE, TRUE,
              <<HeaderLine(""), Extinf_a, TextLine("http", "http://u1")>>) }
PlaylistPaths == {"a.m3u", "b.m3u"}
WorkerResults ==
    {_load_playlist_worker(path, file) : path \in PlaylistPaths, file \in ReloadPlaylists}

\* the two controllers under reloads and the queries of the views
ReloadNext ==
    \/ \E file_path \in Paths, file \in ReloadDocs : load_epg(file_path, file)
    \/ \E file \in ReloadDocs : reload_epg(file)
    \/ \E channel \in MapperChannels, epg_id \in EpgIds : map_channel_to_epg(channel, epg_id)
    \/ \E channel \in MapperChannels, now \in Times :
           EPGController_get_current_program(channel, now)
    \/ Len(notifications) < MaxNotifications
           /\ \E path \in PlaylistPaths : load_playlist_from_path(path)
    \/ Len(notifications) < MaxNotifications
           /\ \E result \in WorkerResults : _on_playlist_loaded(result)
    \/ \E category \in {AllCategory, Str_N}, search_text \in {EmptyStr, Str_a} :
           refresh_channels(category, search_text)

SpecReload == Init /\ [][ReloadNext]_vars

\* channels for the category list: one whose group is the text "All", one
\* without a group, and two whose groups differ in case only
CategoryChannels ==
    { Channel(Str_a, "u1", AllCategory, EmptyStr, 0, None),
      Channel(Str_b, "u2", EmptyStr,    EmptyStr, 0, None),
      Channel(Str_a, "u3", Str_N,       EmptyStr, 1, None),
      Channel(Str_b, "u4", Str_n,       EmptyStr, 0, None) }

\* one Playlist under the operations that change its categories, and the
\* category list
CategoriesNext ==
    \/ \E c \in CategoryChannels : add_channel(c)
    \/ \E key \in SortKeys, reverse \in BOOLEAN : sort_channels(key, reverse)
    \/ clear
    \/ categories

SpecCategories == Init /\ [][CategoriesNext]_vars

\* channels for merging: two with one URL and one with another
MergeChannels ==
    { Channel(Str_b, "u1", EmptyStr, EmptyStr, 0, None),
      Channel(Str_B, "u1", Str_N,    EmptyStr, 2, None),
      Channel(Str_a, "u2", Str_N,    EmptyStr, 1, None) }

\* two Playlists, one merged into the other
MergeNext ==
    \/ \E c \in MergeChannels : add_channel(c)
    \/ \E c \in MergeChannels : other_add_channel(c)
    \/ merge_playlist
    \/ \E c \in MergeChannels : get_channel_by_url(c.url)
    \/ clear

SpecMerge == Init /\ [][MergeNext]_vars

\* two Playlists and the loop of merge, for the second playlist and for
\* the playlist itself as the argument
MergeLoopNext ==
    \/ merging = None /\ \E c \in MergeChannels : add_channel(c)
    \/ merging = None /\ \E c \in MergeChannels : other_add_channel(c)
    \/ \E self_merge \in BOOLEAN : merge_for(self_merge)
    \/ merge_add_channel
    \/ merge_return

SpecMergeLoop == Init /\ [][MergeLoopNext]_vars

\* <programme> elements for the parser: two for "bbc" and one for "b c"
\* with dates that parse, one without <title>, one without a channel
\* attribute, one with an empty one, one whose start and one whose stop
\* does not parse
XmltvProgrammes ==
    { Programme(Some(Id_bbc),   DateStr(TRUE, 0),  DateStr(TRUE, 1),  Some("News")),
      Programme(Some(Id_bbc),   DateStr(TRUE, 1),  DateStr(TRUE, 2),  None),
      Programme(Some(Id_b_c),   DateStr(TRUE, 0),  DateStr(TRUE, 2),  Some("News")),
      Programme(None,           DateStr(TRUE, 0),  DateStr(TRUE, 1),  Some("News")),
      Programme(Some(EmptyStr), DateStr(TRUE, 0),  DateStr(TRUE, 1),  Some("News")),
      Programme(Some(Id_bbc),   DateStr(FALSE, 0), DateStr(TRUE, 1),  Some("News")),
      Programme(Some(Id_bbc),   DateStr(TRUE, 0),  DateStr(FALSE, 1), Some("News")) }

XmltvFiles ==
    {MissingFile, EmptyFile, MalformedFile}
        \cup {OtherRootFile(d) : d \in SeqsUpTo(XmltvProgrammes, 1)}
        \cup {XmltvFile(d) : d \in SeqsUpTo(XmltvProgrammes, MaxElements)}

\* the XMLTV parser, a static method that keeps nothing between calls,
\* applied to one input, and a new controller loading one input
XmltvNext ==
    \/ Fresh /\ \E file \in XmltvFiles : EPGParser_parse_file(file)
    \/ Fresh /\ \E file_path \in Paths, file \in XmltvFiles : load_epg(file_path, file)

SpecXmltv == Init /\ [][XmltvNext]_vars

\* the URLs of the triggers
EpgUrls == {"", "http://e"}
PlaylistUrls == {"http://p"}

\* one trigger of an ingestion from a URL: the EPG button, or the playlist
\* worker followed by the handler of its result
IngestNext ==
    \/ Fresh /\ \E url \in EpgUrls, source \in Sources : load_epg_url(url, source)
    \/ Fresh /\ \E path \in PlaylistUrls, source \in Sources, file \in ReloadPlaylists :
                    PlaylistController_load_playlist_worker(path, source, file)
    \/ call.op = "_load_playlist_worker" /\ _on_playlist_loaded(ret.value)

SpecIngest == Init /\ [][IngestNext]_vars

\* the streams the user plays
StreamUrls == {"http://u1", "http://u2"}

\* one PlayerWidget with the user, VLC and the reconnect timer threads;
\* the model follows a run of reconnects up to one past
\* max_reconnect_attempts
WidgetNext ==
    \/ \E url \in StreamUrls, result \in {0, -1} : play(url, result)
    \/ _on_media_playing
    \/ _handle_playback_error
    \/ timer_threads < MaxTimerThreads /\ Timer_run
    \/ auto_reconnects <= max_reconnect_attempts /\ \E result \in {0, -1} : _reconnect(result)
    \/ stop
    \/ cleanup_vlc

SpecWidget == Init /\ [][WidgetNext]_vars

(***************************************************************************)
(* Properties                                                              *)
(***************************************************************************)
\* the last element of `seq` that satisfies having URL `url`
LastWithUrl(seq, url) ==
    seq[CHOOSE i \in 1..Len(seq) :
            /\ seq[i].url = url
            /\ \A j \in (i + 1)..Len(seq) : seq[j].url # url]

\* C1: as long as only add_channel (directly or through merge) has run
\* since construction or clear(), `channels` holds every added channel in
\* the order added, the URL index has exactly one entry per distinct URL
\* added, that entry is the most recently added channel with the URL, and
\* get_channel_by_url returns it.
C1_UrlIndexLastWins ==
    ~resorted =>
        /\ channels = added
        /\ DOMAIN _url_index = {c.url : c \in Range(added)}
        /\ \A u \in DOMAIN _url_index : _url_index[u] = LastWithUrl(added, u)
        /\ call.op = "get_channel_by_url" =>
               ret = Return(IF call.url \in {c.url : c \in Range(added)}
                            THEN Some(LastWithUrl(added, call.url)) ELSE None)

\* two channels with one URL and different names were added; the lookup of
\* the URL gave the second
C1_Witness ==
    /\ ~resorted
    /\ Len(added) = 2
    /\ added[1].url = added[2].url
    /\ added[1].name # added[2].name
    /\ Len(channels) = 2
    /\ Cardinality(DOMAIN _url_index) = 1
    /\ call.op = "get_channel_by_url"
    /\ call.url = added[2].url
    /\ ret = Return(Some(added[2]))

\* C2: the indices describe exactly the current `channels`: every channel
\* of `channels` is in the bucket of its category and in no other bucket,
\* and the URL index has an entry for its URL; every bucket is non-empty
\* and, like every URL-index and name-index entry, holds only channels of
\* `channels`, filed under their own category, URL and name; the category
\* keys are exactly the categories of the channels.
C2_IndexesMatchChannels ==
    /\ \A c \in Range(channels) :
           /\ CategoryOf(c) \in DOMAIN _categories
           /\ c \in Range(_categories[CategoryOf(c)])
           /\ \A k \in DOMAIN _categories :
                  c \in Range(_categories[k]) => k = CategoryOf(c)
           /\ c.url \in DOMAIN _url_index
           /\ c.name \in DOMAIN _name_index
           /\ c \in Range(_name_index[c.name])
    /\ \A k \in DOMAIN _categories :
           /\ _categories[k] # <<>>
           /\ \A c \in Range(_categories[k]) : c \in Range(channels) /\ CategoryOf(c) = k
    /\ DOMAIN _categories = {CategoryOf(c) : c \in Range(channels)}
    /\ _categories_set = {CategoryOf(c) : c \in Range(channels)}
    /\ \A u \in DOMAIN _url_index :
           _url_index[u] \in Range(channels) /\ _url_index[u].url = u
    /\ \A n \in DOMAIN _name_index :
           /\ _name_index[n] # <<>>
           /\ \A c \in Range(_name_index[n]) : c \in Range(channels) /\ c.name = n
    /\ \A k \in DOMAIN _categories :
           Len(_categories[k]) = Cardinality({i \in 1..Len(channels) : CategoryOf(channels[i]) = k})

\* a playlist that was filled, sorted and then extended: three channels in
\* two buckets, one of them "Uncategorized" for an empty group
C2_Witness ==
    /\ resorted
    /\ call.op = "add_channel"
    /\ Len(channels) = 3
    /\ \E i \in 1..3 : channels[i].group = EmptyStr
    /\ Cardinality(DOMAIN _categories) = 2
    /\ Uncategorized \in _categories_set

\* the programs stored for the channel of the last call
CallSchedule == DictGetList(_channels.at, call.channel_id)

\* reference time t lies in the half-open interval [start, end) of p
Airs(p, t) == p.start_time <= t /\ t < p.end_time

\* C3: get_current_program(channel_id, t) returns a program iff some
\* program stored under channel_id has start <= t < end, and the program
\* returned is one of the channel's programs with start <= t < end.
C3_CurrentIffAiring ==
    call.op = "EPG.get_current_program" =>
        /\ ret.raised = ""
        /\ (ret.value # None) <=>
               (\E i \in 1..Len(CallSchedule) : Airs(CallSchedule[i], call.reference_time))
        /\ ret.value # None =>
               /\ ret.value[1] \in Range(CallSchedule)
               /\ Airs(ret.value[1], call.reference_time)

\* a call at t = start of a stored program returned that program while
\* another program of the channel ends at t
C3_Witness ==
    /\ call.op = "EPG.get_current_program"
    /\ ret.value # None
    /\ ret.value[1].start_time = call.reference_time
    /\ \E i \in 1..Len(CallSchedule) :
           /\ CallSchedule[i].end_time = call.reference_time
           /\ CallSchedule[i].start_time < call.reference_time

\* C4: the stored order of every schedule is the order in which its
\* programs were added, whatever queries ran in between, and when several
\* programs contain t, get_current_program returns the one added first.
C4_FirstAddedWins ==
    /\ \A id \in DOMAIN _channels.at : _channels.at[id] = DictGetList(added_programs, id)
    /\ call.op = "EPG.get_current_program" =>
           LET history == DictGetList(added_programs, call.channel_id)
               airing == {i \in 1..Len(history) : Airs(history[i], call.reference_time)}
           IN  airing # {} =>
                   ret = Return(Some(history[CHOOSE i \in airing : \A j \in airing : i <= j]))

\* two programs of the channel contain t, the one added first starts
\* later than the other, and it was returned
C4_Witness ==
    /\ call.op = "EPG.get_current_program"
    /\ Len(CallSchedule) = 2
    /\ Airs(CallSchedule[1], call.reference_time)
    /\ Airs(CallSchedule[2], call.reference_time)
    /\ CallSchedule[1].start_time > CallSchedule[2].start_time
    /\ ret = Return(Some(CallSchedule[1]))

\* C5 as stated: get_upcoming_programs returns only programs of the channel
\* with start > t, at most `limit` of them, in STRICTLY ascending order of
\* start.
C5_StrictlyAscending ==
    call.op = "EPG.get_upcoming_programs" =>
        /\ Len(ret.value) <= call.limit
        /\ \A i \in 1..Len(ret.value) :
               /\ ret.value[i] \in Range(CallSchedule)
               /\ ret.value[i].start_time > call.reference_time
        /\ \A i \in 1..(Len(ret.value) - 1) :
               ret.value[i].start_time < ret.value[i + 1].start_time

\* how often x occurs in seq
Count(seq, x) == Cardinality({i \in 1..Len(seq) : seq[i] = x})

\* C5 amended: get_upcoming_programs returns only programs of the channel
\* (none more often than it is stored) with start > t, at most `limit` of
\* them, in ascending order of start where programs with the same start may
\* follow one another (non-decreasing).
C5_Ascending ==
    call.op = "EPG.get_upcoming_programs" =>
        /\ ret.raised = ""
        /\ Len(ret.value) <= call.limit
        /\ \A i \in 1..Len(ret.value) :
               /\ ret.value[i] \in Range(CallSchedule)
               /\ Count(ret.value, ret.value[i]) <= Count(CallSchedule, ret.value[i])
               /\ ret.value[i].start_time > call.reference_time
        /\ \A i \in 1..(Len(ret.value) - 1) :
               ret.value[i].start_time <= ret.value[i + 1].start_time

\* the channel holds two programs with the same start after t, and both
\* were returned
C5_Witness ==
    /\ call.op = "EPG.get_upcoming_programs"
    /\ Len(ret.value) = 2
    /\ ret.value[1].start_time = ret.value[2].start_time
    /\ ret.value[1].start_time > call.reference_time

\* the number of programs in all schedules of a dictionary of schedules
RECURSIVE TotalPrograms(_, _)
TotalPrograms(at, ids) ==
    IF ids = {} THEN 0
    ELSE LET id == CHOOSE x \in ids : TRUE
         IN  Len(at[id]) + TotalPrograms(at, ids \ {id})

\* C6: after every step of add_program, add_channel and clear the counter
\* equals the number of programs in all schedules (and __len__ returns
\* it); a step of add_program leaves the channel's schedule as it was with
\* the one program appended (created if absent, duplicates kept), every
\* other schedule as it was and the counter one higher; a step of clear
\* leaves no schedule and counter 0.
C6_CounterIsTotal ==
    [][ /\ _programs_count' = TotalPrograms(_channels'.at, DOMAIN _channels'.at)
        /\ DOMAIN _channels'.at = Range(_channels'.keys)
        /\ call'.op = "EPG.__len__" =>
               ret' = Return(TotalPrograms(_channels.at, DOMAIN _channels.at))
        /\ call'.op = "EPG.add_program" =>
               /\ DOMAIN _channels'.at = DOMAIN _channels.at \cup {call'.channel_id}
               /\ _channels'.at[call'.channel_id] =
                      Append(DictGetList(_channels.at, call'.channel_id), call'.program)
               /\ \A id \in DOMAIN _channels.at \ {call'.channel_id} :
                      _channels'.at[id] = _channels.at[id]
               /\ _programs_count' = _programs_count + 1
        /\ call'.op = "EPG.clear" =>
               /\ _channels'.keys = <<>>
               /\ DOMAIN _channels'.at = {}
               /\ _programs_count' = 0
      ]_vars

\* add_program has just added a program a second time to a channel while
\* the other channel has an empty schedule: counter 2
C6_Witness ==
    /\ call.op = "EPG.add_program"
    /\ _channels.at[call.channel_id] = <<call.program, call.program>>
    /\ \E id \in DOMAIN _channels.at : _channels.at[id] = <<>>
    /\ _programs_count = 2

\* C7: a lookup under a key the structure does not hold returns "nothing"
\* (None from EPG.get_current_program and Playlist.get_channel_by_url, an
\* empty sequence from EPG.get_upcoming_programs and
\* Playlist.get_channels_by_category, also for "All"), raises nothing, and
\* leaves every schedule, bucket and index as it was, creating no entry.
C7_MissesAreAbsence ==
    [][ /\ (call'.op = "EPG.get_current_program" /\ call'.channel_id \notin DOMAIN _channels.at)
               => ret' = Return(None)
        /\ (call'.op = "EPG.get_upcoming_programs" /\ call'.channel_id \notin DOMAIN _channels.at)
               => ret' = Return(<<>>)
        /\ (call'.op = "get_channels_by_category"
                /\ \A c \in Range(channels) : CategoryOf(c) # call'.category)
               => ret' = Return(<<>>)
        /\ (call'.op = "get_channel_by_url" /\ \A c \in Range(channels) : c.url # call'.url)
               => ret' = Return(None)
        /\ call'.op \in {"EPG.get_current_program", "EPG.get_upcoming_programs",
                         "EPG.get_channel_data", "get_channels_by_category",
                         "get_channel_by_url"}
               => /\ ret'.raised = ""
                  /\ UNCHANGED <<plVars, _channels, _programs_count>>
      ]_vars

\* the category "All" was looked up in a playlist that has channels, and a
\* schedule exists for some EPG channel: empty result, no bucket "All"
C7_Witness ==
    /\ call.op = "get_channels_by_category"
    /\ call.category = AllCategory
    /\ channels # <<>>
    /\ _programs_count > 0
    /\ ret = Return(<<>>)
    /\ AllCategory \notin DOMAIN _categories
    /\ AllCategory \notin _categories_set

\* C8: map_channel_to_epg with an EPG id that is no key of the loaded store,
\* or with no store loaded, leaves channel_map as it was, so
\* get_epg_id_for_channel returns for every channel what it returned
\* before; with an id that is a key of the loaded store,
\* get_epg_id_for_channel(channel) returns that id afterwards.
C8_MapRejectsUnknownId ==
    [][ call'.op = "map_channel_to_epg" =>
            IF epg # None /\ call'.epg_id \in Range(EPG_channels(epg[1]))
            THEN EpgIdFor(channel_map', call'.channel) = Some(call'.epg_id)
            ELSE /\ channel_map' = channel_map
                 /\ \A ch \in MapperChannels :
                        EpgIdFor(channel_map', ch) = EpgIdFor(channel_map, ch)
      ]_vars

\* a store is loaded, some channel is mapped, and the last call asked to map
\* an unmapped channel to an id the store lacks: it is still unmapped
C8_Witness ==
    /\ call.op = "map_channel_to_epg"
    /\ epg # None
    /\ call.epg_id \notin Range(EPG_channels(epg[1]))
    /\ EPG_channels(epg[1]) # <<>>
    /\ channel_map # <<>>
    /\ EpgIdFor(channel_map, call.channel) = None

\* the keys of the installed store (none when no store is installed)
StoreKeys(e) == IF e = None THEN {} ELSE Range(EPG_channels(e[1]))

\* C9 as stated: auto_map_channels ends without an error and leaves each
\* input channel (one whose id no other input channel shares) mapped by the
\* first rule that matches it: to its epg_id when that is a store key, else
\* to its name when that is a store key, else to a store key whose
\* normalized form equals its normalized name, else as it was before.
C9_FirstRuleWins ==
    [][ call'.op = "auto_map_channels" =>
            /\ ret'.raised = ""
            /\ \A ch \in Range(call'.channels) :
                   (\A twin \in Range(call'.channels) : twin.id = ch.id => twin = ch) =>
                       IF ch.epg_id # EmptyStr /\ ch.epg_id \in StoreKeys(epg)
                       THEN EpgIdFor(channel_map', ch) = Some(ch.epg_id)
                       ELSE IF ch.name \in StoreKeys(epg)
                       THEN EpgIdFor(channel_map', ch) = Some(ch.name)
                       ELSE IF \E k \in StoreKeys(epg) : Clean(k) = Clean(ch.name)
                       THEN EpgIdFor(channel_map', ch)
                                \in {Some(k) : k \in {x \in StoreKeys(epg) : Clean(x) = Clean(ch.name)}}
                       ELSE EpgIdFor(channel_map', ch) = EpgIdFor(channel_map, ch)
      ]_vars

\* C10 as stated: auto_map_channels returns the number of input channels
\* that had no mapping before the call and have one after it.
C10_CountsNewlyMapped ==
    [][ call'.op = "auto_map_channels" =>
            ret' = Return(Cardinality({ch \in Range(call'.channels) :
                                          /\ EpgIdFor(channel_map, ch) = None
                                          /\ EpgIdFor(channel_map', ch) # None}))
      ]_vars

\* C11 as stated: a channel of the input that no earlier rule matches (its
\* epg_id is empty or no store key, its name is no store key) is mapped by
\* auto_map_channels to a store key whose lowercased form without spaces
\* equals the lowercased name without spaces, whenever the store has such a
\* key: "B C" with an empty epg_id is mapped to the key "b c".
C11_NormalizedMatch ==
    [][ call'.op = "auto_map_channels" =>
            \A ch \in Range(call'.channels) :
                ( /\ \A twin \in Range(call'.channels) : twin.id = ch.id => twin = ch
                  /\ ~(ch.epg_id # EmptyStr /\ ch.epg_id \in StoreKeys(epg))
                  /\ ch.name \notin StoreKeys(epg)
                  /\ \E k \in StoreKeys(epg) : Clean(k) = Clean(ch.name) )
                    => /\ ret'.raised = ""
                       /\ EpgIdFor(channel_map', ch)
                              \in {Some(k) : k \in {x \in StoreKeys(epg) : Clean(x) = Clean(ch.name)}}
      ]_vars

\* C12 as stated: a reload installs a complete structure by one
\* replacement of the reference and a query runs against the complete old
\* or the complete new structure: self.playlist only ever changes to a
\* Playlist object whose indices are those of its channels, self.epg only
\* ever changes to the complete store of the document just parsed, and
\* every query of the channel list finds such a Playlist and lists from it.
C12_ReadersSeeOldOrNew ==
    [][ /\ playlist' # playlist =>
               /\ call'.op \in {"load_playlist_from_path", "_on_playlist_loaded"}
               /\ playlist' # None
               /\ playlist'[1].type = "Playlist"
               /\ playlist'[1].ix = _rebuild_indexes(playlist'[1].channels)
        /\ epg' # epg =>
               /\ call'.op \in {"load_epg", "reload_epg"}
               /\ epg' = Some(ParseProgrammes(EmptyStore, call'.file.programmes))
        /\ call'.op = "refresh_channels" =>
               /\ playlist # None
               /\ playlist[1].type = "Playlist"
               /\ ret' = Return(Some(Listing(playlist[1], call'.category, call'.search_text)))
        /\ call'.op = "EPGController.get_current_program" => ret'.raised = ""
      ]_vars

\* C13 as stated: after sort_channels("channel_number", reverse), for
\* either value of reverse, every channel with channel_number = 0 comes
\* after every channel with channel_number > 0, and with reverse = False
\* the numbered channels are in ascending order of number, those with the
\* same number in the order of their lowercased names.
C13_UnnumberedLast ==
    (call.op = "sort_channels" /\ call.key = "channel_number") =>
        /\ \A i, j \in 1..Len(channels) :
               (channels[i].channel_number = 0 /\ channels[j].channel_number > 0) => j < i
        /\ ~call.reverse =>
               \A i, j \in 1..Len(channels) :
                   (i < j /\ channels[i].channel_number > 0 /\ channels[j].channel_number > 0) =>
                       /\ channels[i].channel_number <= channels[j].channel_number
                       /\ channels[i].channel_number = channels[j].channel_number =>
                              ~StrLess(lower(channels[j].name), lower(channels[i].name))

\* C14: sort_channels is idempotent: in the state sort_channels(key,
\* reverse) leaves, for each of the three keys and either value of
\* reverse, sorting again with the same key and reverse gives the same
\* order of `channels` and the same four indices, bucket by bucket in the
\* same order.
C14_SortIdempotent ==
    call.op = "sort_channels" =>
        /\ SortedChannels(channels, call.key, call.reverse) = channels
        /\ _rebuild_indexes(SortedChannels(channels, call.key, call.reverse)) = CurrentIndexes

\* a playlist of three channels was sorted in descending order by a key
\* under which two different channels are equal
C14_Witness ==
    /\ call.op = "sort_channels"
    /\ call.reverse
    /\ Len(channels) = 3
    /\ \E i, j \in 1..3 :
           /\ i < j
           /\ channels[i] # channels[j]
           /\ ~KeyBefore(call.key, TRUE, channels[i], channels[j])
           /\ ~KeyBefore(call.key, TRUE, channels[j], channels[i])
    /\ \E i \in 1..3 : channels[i].channel_number > 0

\* C15 as stated: Playlist.categories returns each category key once, in
\* ascending order by code point (case-sensitive), never the text "All",
\* and exactly the categories (the group, "Uncategorized" for an empty
\* group) of the channels now in `channels`.
C15_CategoriesSortedWithoutAll ==
    call.op = "categories" =>
        /\ ret.raised = ""
        /\ \A i \in 1..(Len(ret.value) - 1) : StrLess(ret.value[i], ret.value[i + 1])
        /\ AllCategory \notin Range(ret.value)
        /\ Range(ret.value) = {CategoryOf(c) : c \in Range(channels)}

\* C16: p.merge(q) for another playlist q leaves p.channels as it was
\* followed by the channels of q in q's order, leaves q (its channels and
\* its indices) as it was, and for every URL that a channel of p and a
\* channel of q share, p's URL index, and so p.get_channel_by_url, then
\* gives a channel of q: the last one of q with that URL.
C16_MergeAppendsOther ==
    [][ /\ call'.op = "merge" =>
               /\ channels' = channels \o other.channels
               /\ other' = other
               /\ other.ix = _rebuild_indexes(other.channels)
               /\ \A u \in {c.url : c \in Range(channels)}
                              \cap {c.url : c \in Range(other.channels)} :
                      /\ DictGet(_url_index', u) = Some(LastWithUrl(other.channels, u))
                      /\ _url_index'[u] \in Range(other.channels)
        /\ (call'.op = "get_channel_by_url" /\ call.op = "merge"
                /\ call'.url \in {c.url : c \in Range(other.channels)})
               => ret' = Return(Some(LastWithUrl(other.channels, call'.url)))
      ]_vars

\* p held a channel, q two channels, one of them another channel with the
\* URL of p's; q was merged into p and is as it was
C16_Witness ==
    /\ call.op = "merge"
    /\ Len(other.channels) = 2
    /\ Len(channels) = 3
    /\ SubSeq(channels, 2, 3) = other.channels
    /\ \E i \in 1..2 : other.channels[i].url = channels[1].url /\ other.channels[i] # channels[1]
    /\ _url_index[channels[1].url] # channels[1]

\* a <programme> element the parser keeps: it has a channel attribute and
\* both of its dates are in an accepted format
WellFormed(programme) ==
    /\ programme.channel # None
    /\ programme.channel # Some(EmptyStr)
    /\ programme.start.valid
    /\ programme.stop.valid

\* the programs a document holds for an EPG channel id, in document order
ScheduleIn(programmes, id) ==
    LET kept == SelectSeq(programmes, LAMBDA p : WellFormed(p) /\ p.channel = Some(id))
    IN  [i \in 1..Len(kept) |->
            Program(IF kept[i].title = None THEN "No Title" ELSE kept[i].title[1],
                    kept[i].start.time, kept[i].stop.time)]

\* the store holds exactly the programs of the document
HoldsExactly(store, programmes) ==
    /\ DOMAIN store.channels.at =
           {p.channel[1] : p \in {q \in Range(programmes) : WellFormed(q)}}
    /\ \A id \in DOMAIN store.channels.at :
           store.channels.at[id] = ScheduleIn(programmes, id)
    /\ store.programs_count =
           Cardinality({i \in 1..Len(programmes) : WellFormed(programmes[i])})

\* C17: a load_epg or reload_epg that succeeds leaves the controller with
\* a store that holds exactly the programs of the document just parsed,
\* whatever store was installed before (none of its programs remains), so
\* a reload of a source that has not changed leaves the same schedules and
\* the same program count as the load before it; one that fails leaves the
\* installed store as it was.
C17_ReloadReplacesStore ==
    [][ call'.op \in {"load_epg", "reload_epg"} =>
            /\ ret' = Return(TRUE) =>
                   /\ epg' # None
                   /\ HoldsExactly(epg'[1], call'.file.programmes)
                   /\ (call.op \in {"load_epg", "reload_epg"} /\ ret = Return(TRUE)
                           /\ call.file = call'.file) => epg' = epg
            /\ ret' # Return(TRUE) => epg' = epg
      ]_vars

\* a reload succeeded and installed a store with a program, and a channel
\* is still mapped to an id of the store installed before, which the new
\* store does not have
C17_Witness ==
    /\ call.op = "reload_epg"
    /\ ret = Return(TRUE)
    /\ epg # None
    /\ epg[1].programs_count > 0
    /\ \E ch \in MapperChannels :
           /\ EpgIdFor(channel_map, ch) # None
           /\ EpgIdFor(channel_map, ch)[1] \notin StoreKeys(epg)

\* C18 as stated: every Channel that M3UParser._parse_channels produces
\* combines one URL line with the metadata of the most recent #EXTINF line
\* before it, no #EXTINF line and no URL line goes into two Channels, and
\* the parse ends without an error whatever lines it is given (so a
\* #EXTINF line without a URL line after it and a URL line without pending
\* metadata only produce no Channel).
C18_UrlTakesLatestExtinf ==
    call.op = "M3UParser._parse_channels" =>
        /\ ret.raised = ""
        /\ Len(call.made_from) = Len(ret.value)
        /\ \A k \in 1..Len(ret.value) :
               LET e == call.made_from[k][1]
                   u == call.made_from[k][2]
               IN  /\ e \in 1..Len(call.lines) /\ u \in 1..Len(call.lines) /\ e < u
                   /\ call.lines[u].kind = "text"
                   /\ call.lines[e].kind = "extinf"
                   /\ \A i \in (e + 1)..(u - 1) : call.lines[i].kind # "extinf"
                   /\ ret.value[k].url = call.lines[u].text
                   /\ ret.value[k].name = PendingOf(call.lines[e]).name
                   /\ ret.value[k].group = PendingOf(call.lines[e]).group
                   /\ ret.value[k].epg_id = PendingOf(call.lines[e]).epg_id
        /\ \A k, m \in 1..Len(ret.value) :
               k # m => /\ call.made_from[k][1] # call.made_from[m][1]
                        /\ call.made_from[k][2] # call.made_from[m][2]

\* the four encodings M3UParser.parse falls back through
FallbackEncodings == {"utf-8", "utf-8-sig", "latin1", "cp1252"}

\* C19 as stated: M3UParser.parse of a file whose first line is not
\* exactly "#EXTM3U" raises the format error (ValueError), returning no
\* channel, and raises it only after it has tried every encoding.
C19_NotExactHeaderFails ==
    (call.op = "M3UParser.parse" /\ call.file.exists
         /\ (call.file.lines = <<>> \/ call.file.lines[1] # HeaderLine("")))
        => /\ ret = Raise("ValueError")
           /\ call.tried = EncodingsFor(call.file)
           /\ Range(call.tried) = FallbackEncodings

\* C19 amended: M3UParser.parse of a file whose first line does not start
\* with "#EXTM3U" raises the format error (ValueError), returning no
\* channel however many #EXTINF and URL lines follow, and raises it only
\* after it has tried every encoding; the parser of simple_iptv, which
\* reads UTF-8 only, raises as well.
C19_NoHeaderFails ==
    /\ (call.op = "M3UParser.parse" /\ call.file.exists
            /\ (call.file.lines = <<>> \/ call.file.lines[1].kind # "header"))
           => /\ ret = Raise("ValueError")
              /\ call.made_from = <<>>
              /\ call.tried = EncodingsFor(call.file)
              /\ Range(call.tried) = FallbackEncodings
    /\ (call.op = "simple_iptv.M3UParser.parse" /\ call.file.exists
            /\ (call.file.lines = <<>> \/ call.file.lines[1].kind # "header"))
           => /\ ret.raised \in {"ValueError", "UnicodeDecodeError"}
              /\ ret.value = None

\* a UTF-8 file that starts with a matching #EXTINF line and its URL line,
\* without the header: ValueError after the four encodings
C19_Witness ==
    /\ call.op = "M3UParser.parse"
    /\ call.file.exists /\ call.file.utf8 /\ ~call.file.bom
    /\ Len(call.file.lines) >= 2
    /\ call.file.lines[1] = Extinf_a
    /\ call.file.lines[2].kind = "text"
    /\ call.file.lines[2].scheme = "http"
    /\ ret = Raise("ValueError")
    /\ call.tried = <<"utf-8", "utf-8-sig", "latin1", "cp1252">>

\* C20: EPGParser.parse of an XMLTV document skips each <programme>
\* element without a channel id or with a start or stop that does not
\* parse, and keeps every other one: it returns a store whose keys are
\* the channel ids of the well-formed elements in the order of their first
\* element, whose schedule for an id is the programs of the well-formed
\* elements of that id in document order, and whose program count is the
\* number of well-formed elements.
C20_KeepsWellFormedProgrammes ==
    (call.op = "EPGParser.parse" /\ call.file.kind = "tv") =>
        LET doc == call.file.programmes
            kept == SelectSeq(doc, WellFormed)
        IN  /\ ret.raised = ""
            /\ ret.value.programs_count = Len(kept)
            /\ Range(ret.value.channels.keys) = {p.channel[1] : p \in Range(kept)}
            /\ \A i, j \in 1..Len(ret.value.channels.keys) :
                   i < j =>
                       \E m \in 1..Len(kept) :
                           /\ kept[m].channel[1] = ret.value.channels.keys[i]
                           /\ \A n \in 1..m : kept[n].channel[1] # ret.value.channels.keys[j]
            /\ \A id \in DOMAIN ret.value.channels.at :
                   ret.value.channels.at[id] = ScheduleIn(doc, id)

\* a document of three elements for one channel, the middle one with a
\* date that does not parse: the store holds the first and the third
C20_Witness ==
    /\ call.op = "EPGParser.parse"
    /\ call.file.kind = "tv"
    /\ Len(call.file.programmes) = 3
    /\ WellFormed(call.file.programmes[1])
    /\ ~call.file.programmes[2].stop.valid
    /\ WellFormed(call.file.programmes[3])
    /\ call.file.programmes[3] # call.file.programmes[1]
    /\ ret.raised = ""
    /\ ret.value.programs_count = 2
    /\ ret.value.channels.keys = <<Id_bbc>>

\* C21: EPGParser.parse on a zero-length file, or on a document whose root
\* element is not `tv`, raises ValueError and returns no store, whatever
\* <programme> elements the document has; EPGController.load_epg returns
\* False for such a file and installs nothing.
C21_EmptyOrOtherRootFails ==
    /\ (call.op = "EPGParser.parse" /\ call.file.kind \in {"empty", "other_root"}) =>
           ret = Raise("ValueError")
    /\ (call.op = "load_epg" /\ call.file.kind \in {"empty", "other_root"}) =>
           /\ ret = Return(FALSE)
           /\ epg = None
           /\ epg_path = None

\* a document with a well-formed <programme> under another root was parsed
C21_Witness ==
    /\ call.op = "EPGParser.parse"
    /\ call.file.kind = "other_root"
    /\ Len(call.file.programmes) = 1
    /\ WellFormed(call.file.programmes[1])
    /\ ret.raised = "ValueError"
    /\ ret.value = None

\* the source answers no request with the document
Persistent(source) == \A i \in DOMAIN source : source[i] # "ok"

\* C22: a source that fails persistently is requested 1 + MAX_RETRIES times,
\* each time with the timeout REQUEST_TIMEOUT, before the failure is
\* surfaced, and the failure is shown as exactly one message: this holds for
\* the EPG URL trigger, for the playlist worker, and for the handler of the
\* worker's failed result.
C22_FailsAfterRetries ==
    /\ (call.op = "load_epg_url" /\ call.url # "" /\ Persistent(call.source)) =>
           /\ Len(requests) = 1 + MAX_RETRIES
           /\ \A i \in 1..Len(requests) : requests[i] = Some(REQUEST_TIMEOUT)
           /\ notifications = <<"ERROR">>
    /\ (call.op = "_load_playlist_worker" /\ Persistent(call.source)) =>
           /\ ~ret.value.success
           /\ Len(requests) = 1 + MAX_RETRIES
           /\ \A i \in 1..Len(requests) : requests[i] = Some(REQUEST_TIMEOUT)
           /\ notifications = <<>>
    /\ (call.op = "_on_playlist_loaded" /\ ~call.result.success) =>
           notifications = <<"ERROR">>

\* C23: a stream that keeps raising errors and never plays is restarted by
\* the reconnect timer at most max_reconnect_attempts times after the user's
\* play(), the error after the last restart is reported as "Stream
\* unavailable" and starts no timer, and reconnect_attempts never exceeds
\* max_reconnect_attempts.
C23_ReconnectsAreBounded ==
    /\ auto_reconnects <= max_reconnect_attempts
    /\ reconnect_attempts <= max_reconnect_attempts
    /\ (call.op = "_handle_playback_error" /\ auto_reconnects = max_reconnect_attempts) =>
           /\ status = Some("Stream unavailable")
           /\ reconnect_timer # "waiting"

\* C24: once stop() or cleanup_vlc() has returned, the player does not open
\* or play a stream until the user calls play(), whatever the reconnect
\* timer threads do.
C24_NoPlaybackAfterStop ==
    halted => player \notin {"opening", "playing"}

\* the channels the iterator of the running merge has not visited yet
LeftToVisit == Len(Iterated) - merging[1].visited

\* C25: Playlist.merge terminates for every argument, p.merge(p) included:
\* each add_channel step of a running merge leaves fewer channels to visit
\* than there were before it, so the loop ends after as many steps as the
\* argument had channels.
C25_MergeTerminates ==
    [][(merging # None /\ merging' # None) => LeftToVisit' < LeftToVisit]_vars

\* C26: after any sequence of load_epg, reload_epg, map_channel_to_epg and
\* auto_map_channels, every EPG id stored in channel_map is a key of the
\* store that is installed now.
C26_MappedIdsAreStoreKeys ==
    \A k \in DOMAIN channel_map : channel_map[k] \in StoreKeys(epg)

\* C27: map_channel_to_epg for one channel, and auto_map_channels for some
\* channels, leave what get_epg_id_for_channel returns for every channel
\* with another URL as it was, channels without an `id` included.
C27_MappingLeavesOtherChannels ==
    [][ /\ call'.op = "map_channel_to_epg" =>
               \A ch \in MapperChannels :
                   ch.url # call'.channel.url =>
                       EpgIdFor(channel_map', ch) = EpgIdFor(channel_map, ch)
        /\ call'.op = "auto_map_channels" =>
               \A ch \in MapperChannels :
                   (\A i \in 1..Len(call'.channels) : ch.url # call'.channels[i].url) =>
                       EpgIdFor(channel_map', ch) = EpgIdFor(channel_map, ch)
      ]_vars

\* the programs of the called channel that start after the reference time,
\* in the order they were stored
Qualifying == SelectSeq(CallSchedule, LAMBDA p : p.start_time > call.reference_time)

\* C28: EPG.get_upcoming_programs(id, t, n) returns n of the programs of
\* the channel with start > t, or all of them when there are fewer than n;
\* each returned program is one stored program (at the position `from`
\* names), a returned program starts no later than the ones returned after
\* it, programs with the same start appear in the order they were stored,
\* and no program left out starts earlier than a returned one or, with the
\* same start, was stored before it.
C28_EarliestUpcoming ==
    call.op = "EPG.get_upcoming_programs" =>
        /\ ret.raised = ""
        /\ Len(ret.value) = IF call.limit < Len(Qualifying) THEN call.limit
                            ELSE Len(Qualifying)
        /\ \E from \in [1..Len(ret.value) -> 1..Len(Qualifying)] :
               /\ \A i \in 1..Len(ret.value) : ret.value[i] = Qualifying[from[i]]
               /\ \A i, j \in 1..Len(ret.value) :
                      i < j =>
                          \/ ret.value[i].start_time < ret.value[j].start_time
                          \/ /\ ret.value[i].start_time = ret.value[j].start_time
                             /\ from[i] < from[j]
               /\ \A k \in 1..Len(Qualifying) :
                      (\A i \in 1..Len(ret.value) : from[i] # k) =>
                          \A i \in 1..Len(ret.value) :
                              \/ ret.value[i].start_time < Qualifying[k].start_time
                              \/ /\ ret.value[i].start_time = Qualifying[k].start_time
                                 /\ from[i] < k

\* the channel holds two different programs with the same start after t,
\* one was asked for, and the one stored first was returned
C28_Witness ==
    /\ call.op = "EPG.get_upcoming_programs"
    /\ call.limit = 1
    /\ Len(Qualifying) = 2
    /\ Qualifying[1].start_time = Qualifying[2].start_time
    /\ Qualifying[1] # Qualifying[2]
    /\ ret.value = <<Qualifying[1]>>

\* C29: a load_epg or a load_playlist_from_path that fails returns False
\* and leaves what was installed before it, with its recorded path,
\* installed and unchanged: the EPG store and epg_path, the playlist and
\* _last_loaded_path.
C29_FailedLoadKeepsInstalled ==
    [][ /\ (call'.op = "load_epg" /\ call'.file.kind # "tv") =>
               /\ ret' = Return(FALSE)
               /\ epg' = epg
               /\ epg_path' = epg_path
        /\ (call'.op = "load_playlist_from_path" /\ ret' # Return(TRUE)) =>
               /\ ret' = Return(FALSE)
               /\ playlist' = playlist
               /\ _last_loaded_path' = _last_loaded_path
      ]_vars

\* the operations that only ask
QueryOps ==
    {"EPG.get_current_program", "EPG.get_upcoming_programs", "search_channels",
     "get_channels_by_category", "categories"}

\* C30: EPG.get_current_program, EPG.get_upcoming_programs,
\* Playlist.search_channels, Playlist.get_channels_by_category and
\* Playlist.categories are read-only: a call leaves the stored order of each
\* channel's programs, the program counter, the order of `channels` and
\* the four indices exactly as they were.
C30_QueriesAreReadOnly ==
    [][ call'.op \in QueryOps =>
            /\ _channels' = _channels
            /\ _programs_count' = _programs_count
            /\ channels' = channels
            /\ _categories' = _categories
            /\ _categories_set' = _categories_set
            /\ _url_index' = _url_index
            /\ _name_index' = _name_index
      ]_vars

\* get_current_program found the airing program behind one that has ended,
\* and both are still stored, in the order they were added
C30_Witness ==
    /\ call.op = "EPG.get_current_program"
    /\ Len(CallSchedule) = 2
    /\ CallSchedule[1].end_time <= call.reference_time
    /\ ret = Return(Some(CallSchedule[2]))
    /\ CallSchedule = added_programs[call.channel_id]
    /\ _programs_count = 2

====
